---- MODULE Spec2Model ----
(***************************************************************************)
(* Reconciliation and audit-relay engine of the TGTHR offline-first sync    *)
(* server (pwa-sync-starter/server/app): the pull engine that mirrors       *)
(* Salesforce programs, person accounts and enrollments into the local      *)
(* DuckDB cache, the push paths of the outreach endpoints, and the audit    *)
(* relay.                                                                   *)
(***************************************************************************)
EXTENDS Integers, Sequences, FiniteSets, TLC

VARIABLES
    programs,             \* Local Cache table programs: rows [uuid, sfid, name]
    participants,         \* Local Cache table participants: rows [uuid, sfid]
    program_enrollments,  \* Local Cache table program_enrollments
    sfPrograms,           \* remote Program records, by Id
    sfAccounts,           \* remote Account records, by Id
    sfEnrollments,        \* remote ProgramEnrollment records, by Id
    uuidCounter,          \* number of uuid.uuid4() values drawn so far
    writeMissing,         \* settings.TGTHR_WRITE_MISSING_UUIDS
    outreach_encounters,  \* Local Cache table outreach_encounters: rows [id, synced]
    new_client_intakes,   \* Local Cache table new_client_intakes: rows [id, synced]
    sfAccountFields,      \* field names the remote Account describe exposes
    sfIngested,           \* encounters the remote composite procedure has processed
    auditLog,             \* remote Audit_Log__c records, in creation order
    pushHist,             \* history: remote acknowledgments and lost responses
    lastOp,               \* the last operation that ran, with its outcome
    cycle,                \* the run_full_sync call in flight: position and locals
    request,              \* the input a function-level specification applies its function to,
                          \* or the application write in flight
    token_cache,          \* sf_client._token_cache: <<>> (None) or <<access_token, instance_url, expires_at>>
    clock,                \* time.time(), in seconds
    callers,              \* the _get_token() calls in flight, one per thread: position and locals
    describe_cache,       \* sf_client._describe_cache and _account_fields_cache
    parked,               \* a second run_full_sync call in flight, while its thread is not running
    notes_db,             \* SQLite store of api/sync.py: Meta 'serverVersion' and the notes
    meta                  \* Local Cache table meta: key -> value

pullVars == <<programs, participants, program_enrollments,
              sfPrograms, sfAccounts, sfEnrollments, uuidCounter, writeMissing>>

pushVars == <<outreach_encounters, new_client_intakes, sfAccountFields, sfIngested, pushHist>>

\* in-memory state of the server process and of the calls in flight
threadVars == <<callers, describe_cache, parked, notes_db, meta>>

processVars == <<cycle, request, token_cache, clock, threadVars>>

vars == <<pullVars, pushVars, auditLog, lastOp, processVars>>

(***************************************************************************)
(* Bounds.                                                                 *)
(***************************************************************************)
MaxUuid == 4          \* uuid4() values the model may draw
MaxAudit == 2         \* Audit_Log__c records the model lets the remote side hold
MaxCreated == 3       \* Accounts the model lets the push paths create remotely
MaxItems == 2         \* locally originated records the model lets the cache hold

(***************************************************************************)
(* Values.                                                                 *)
(***************************************************************************)
NULL == "NULL"        \* Python None / SQL NULL

\* str(uuid.uuid4()): the n-th value drawn; distinct draws give distinct values
uuid4(n) == "gen-" \o ToString(n)

\* val.strip(), on the strings the model uses (no value has surrounding blanks
\* except the all-blank ones)
Strip(val) == IF val \in {"", " ", "  "} THEN "" ELSE val

\* isinstance(val, str) and val.strip()
IsNonBlankStr(val) == val # NULL /\ Strip(val) # ""

\* Python truthiness of an optional string: r.get("UUID__c")
Truthy(val) == val # NULL /\ val # ""

\* ensure_uuid(val): fresh is the value uuid4() would return now
ensure_uuid(val, fresh) == IF IsNonBlankStr(val) THEN Strip(val) ELSE fresh

(***************************************************************************)
(* Dictionaries (Python dict) as functions.                                *)
(***************************************************************************)
EmptyDict == [k \in {} |-> NULL]

DictSet(d, k, v) == [x \in DOMAIN d \cup {k} |-> IF x = k THEN v ELSE d[x]]

\* d.get(k)
DictGet(d, k) == IF k \in DOMAIN d THEN d[k] ELSE NULL

\* A JSON-like value is a record [t, v]: t = "s" a scalar (v its text),
\* t = "d" a dict (v a function on its keys), t = "l" a list (v a sequence).
Str(x) == [t |-> "s", v |-> x]

Dict(f) == [t |-> "d", v |-> f]

List(q) == [t |-> "l", v |-> q]

IsStr(x, text) == x.t = "s" /\ x.v = text

(***************************************************************************)
(* Local Cache (DuckDB).  uuid is the PRIMARY KEY and sfid is UNIQUE in     *)
(* programs, participants and program_enrollments.  The FOREIGN KEYs of    *)
(* program_enrollments name sfids that the same cycle has just upserted;   *)
(* the model does not re-check them on a replace of the parent row.        *)
(***************************************************************************)
\* INSERT OR REPLACE INTO t ...: the new row replaces the row with the same
\* primary key and any row holding the same non-null UNIQUE sfid
InsertOrReplace(table, row) ==
    {r \in table : r.uuid # row.uuid /\ (row.sfid = NULL \/ r.sfid # row.sfid)}
        \cup {row}

CountRows(table) == Cardinality(table)

\* settings.PROGRAM_NAMES
PROGRAM_NAMES == <<"1440 Pine", "Nest 56">>

\* init_schema_and_seed's uuid_val for the i-th configured program name:
\* f"prog-{i+1}-{code.lower()}" with code = name.replace(" ", "").upper()[:4]
SeedUuid(i) == IF i = 1 THEN "prog-1-1440" ELSE "prog-2-nest"

SeedRows == {[uuid |-> SeedUuid(i), sfid |-> NULL, name |-> PROGRAM_NAMES[i]] :
                i \in 1..Len(PROGRAM_NAMES)}

\* a seeding that does not look at the row count
SeedAlways(progTable) == SeedRows

\* init_schema_and_seed: seeds programs from settings when the table is empty
init_schema_and_seed(progTable) ==
    IF CountRows(progTable) = 0 THEN SeedRows ELSE progTable

(***************************************************************************)
(* The remote system of record: the records the model starts from.         *)
(***************************************************************************)
ProgramOrder == <<"P1", "P2", "P3">>        \* ORDER BY Name
EnrollmentOrder == <<"E1", "E2", "E3", "E4", "E5">>  \* ORDER BY LastModifiedDate DESC
AccountOrder == <<"A1", "A2">>

ProgramName(id) ==
    CASE id = "P1" -> "1440 Pine"
      [] id = "P2" -> "Nest 56 East"
      [] OTHER     -> "Day Shelter"

\* Name LIKE '<prefix>%' for some configured prefix (program_where_clause)
MatchesProgramNames(name) == name \in {"1440 Pine", "Nest 56 East"}

\* the reconciliation key a remote record carries when it carries one
GivenUuid(id) == "uuid-" \o id

InitialEnrollment(id) ==
    CASE id = "E1" -> [Id |-> "E1", ProgramId |-> "P1", AccountId |-> "A1", Active |-> TRUE]
      [] id = "E2" -> [Id |-> "E2", ProgramId |-> "P2", AccountId |-> "A2", Active |-> TRUE]
      [] id = "E3" -> [Id |-> "E3", ProgramId |-> "P3", AccountId |-> "A1", Active |-> TRUE]
      [] id = "E4" -> [Id |-> "E4", ProgramId |-> "P1", AccountId |-> NULL, Active |-> TRUE]
      [] OTHER     -> [Id |-> "E5", ProgramId |-> "P2", AccountId |-> "A1", Active |-> FALSE]

Range(s) == {s[i] : i \in 1..Len(s)}

(***************************************************************************)
(* Pull Engine: the fetches of sync_helpers.py.  A fetch returns the        *)
(* records as they are on the remote side when the query runs.             *)
(***************************************************************************)
\* the records of sf whose ids, taken in the query's order, satisfy keep
QueryRecords(order, sf, keep(_)) ==
    LET ids == SelectSeq(order, LAMBDA id : id \in DOMAIN sf /\ keep(sf[id]))
    IN  [i \in 1..Len(ids) |-> sf[ids[i]]]

\* fetch_programs(): programs whose Name matches a configured prefix
fetch_programs(sfP) ==
    QueryRecords(ProgramOrder, sfP, LAMBDA r : MatchesProgramNames(r.Name))

\* a query for every active enrollment, whatever its program
fetch_enrollments_unscoped(sfE, program_ids) ==
    QueryRecords(EnrollmentOrder, sfE, LAMBDA r : r.Active)

\* fetch_enrollments_for_programs(program_ids):
\*   WHERE ProgramId IN (...) AND (Status = 'Active' OR EndDate = NULL OR EndDate >= TODAY)
fetch_enrollments_for_programs(sfE, program_ids) ==
    IF program_ids = {} THEN <<>>
    ELSE QueryRecords(EnrollmentOrder, sfE,
                      LAMBDA r : r.ProgramId \in program_ids /\ r.Active)

\* fetch_accounts(account_ids): WHERE IsPersonAccount = TRUE AND Id IN (...);
\* after an INVALID_FIELD error the fallback query drops the IsPersonAccount filter
fetch_accounts(sfA, account_ids, fallback) ==
    IF account_ids = {} THEN <<>>
    ELSE QueryRecords(AccountOrder, sfA,
                      LAMBDA r : r.Id \in account_ids /\ (fallback \/ r.IsPersonAccount))

(***************************************************************************)
(* Identity Reconciler and upserts of sync_helpers.py.  st threads the     *)
(* table being written (db), the remote object being patched (sf), the     *)
(* uuid4 draw count (ctr) and the mapping built so far (map); wbFail is the *)
(* set of record ids whose sobject_update raises.                          *)
(***************************************************************************)
\* sobject_update(obj, Id, {"UUID__c": u}) inside try/except: pass
WriteBack(sf, id, u, wbFail) ==
    IF id \in wbFail THEN sf ELSE [sf EXCEPT ![id].UUID__c = u]

ProgramRow(p_uuid, r) == [uuid |-> p_uuid, sfid |-> r.Id, name |-> r.Name]

\* a participants row stored without its remote id
ParticipantRowNoSfid(pa_uuid, a) == [uuid |-> pa_uuid, sfid |-> NULL]

ParticipantRow(pa_uuid, a) == [uuid |-> pa_uuid, sfid |-> a.Id]

EnrollmentRow(enr_uuid, e) ==
    [uuid |-> enr_uuid, sfid |-> e.Id, program_id |-> e.ProgramId, enrollee_id |-> e.AccountId]

\* baseline_active_enrollments: program_enrollments JOIN programs ON p.sfid =
\* pe.program_id JOIN participants ON pa.sfid = pe.enrollee_id.  Every stored
\* row was active when it was fetched, so the WHERE clause keeps it.
baseline_active_enrollments(pe_table, p_table, pa_table) ==
    {[enrollment_uuid |-> pe.uuid, program_uuid |-> p.uuid, participant_uuid |-> pa.uuid] :
        <<pe, p, pa>> \in {t \in pe_table \X p_table \X pa_table :
                              t[2].sfid = t[1].program_id /\ t[3].sfid = t[1].enrollee_id}}

\* a loop body that leaves the row out when its sobject_update raised
StoreUnlessWriteBackFailed(db, newRow, id, wbFail) ==
    IF id \in wbFail THEN db ELSE InsertOrReplace(db, newRow)

\* the INSERT OR REPLACE after the try/except around sobject_update: the
\* except clause swallows the error, so the statement runs either way
StoreAfterWriteBack(db, newRow, id, wbFail) == InsertOrReplace(db, newRow)

\* one iteration of a reconciling upsert loop: ensure_uuid, optional
\* write-back, id_to_uuid[Id] = uuid, INSERT OR REPLACE
UpsertOne(st, r, row(_, _), wbFail) ==
    LET blank == ~IsNonBlankStr(r.UUID__c)
        u     == ensure_uuid(r.UUID__c, uuid4(st.ctr + 1))
    IN  [db  |-> StoreAfterWriteBack(st.db, row(u, r), r.Id, wbFail),
         sf  |-> IF ~Truthy(r.UUID__c) /\ writeMissing
                 THEN WriteBack(st.sf, r.Id, u, wbFail) ELSE st.sf,
         ctr |-> IF blank THEN st.ctr + 1 ELSE st.ctr,
         map |-> DictSet(st.map, r.Id, u)]

RECURSIVE upsert_programs_from(_, _, _, _)
upsert_programs_from(rows, i, st, wbFail) ==
    IF i > Len(rows) THEN st
    ELSE upsert_programs_from(rows, i + 1, UpsertOne(st, rows[i], ProgramRow, wbFail), wbFail)

\* upsert_programs(db, rows) -> id_to_uuid
upsert_programs(db, sf, ctr, rows, wbFail) ==
    upsert_programs_from(rows, 1, [db |-> db, sf |-> sf, ctr |-> ctr, map |-> EmptyDict], wbFail)

RECURSIVE upsert_participants_from(_, _, _, _)
upsert_participants_from(rows, i, st, wbFail) ==
    IF i > Len(rows) THEN st
    ELSE IF ~rows[i].IsPersonAccount
         THEN upsert_participants_from(rows, i + 1, st, wbFail)
         ELSE upsert_participants_from(rows, i + 1,
                                       UpsertOne(st, rows[i], ParticipantRow, wbFail), wbFail)

\* upsert_participants(db, rows) -> id_to_uuid
upsert_participants(db, sf, ctr, rows, wbFail) ==
    upsert_participants_from(rows, 1, [db |-> db, sf |-> sf, ctr |-> ctr, map |-> EmptyDict], wbFail)

\* a guard that looks up the program mapping only
ResolvesProgramOnly(e, prog_uuid_by_id, acct_uuid_by_id) ==
    Truthy(e.Id) /\ Truthy(DictGet(prog_uuid_by_id, e.ProgramId))

\* the guards of upsert_enrollments' loop body: the row has an Id, a
\* ProgramId and an AccountId, and both map to a uuid
EnrollmentResolves(e, prog_uuid_by_id, acct_uuid_by_id) ==
    /\ Truthy(e.Id)
    /\ Truthy(e.ProgramId) /\ Truthy(e.AccountId)
    /\ Truthy(DictGet(prog_uuid_by_id, e.ProgramId))
    /\ Truthy(DictGet(acct_uuid_by_id, e.AccountId))

RECURSIVE upsert_enrollments_from(_, _, _, _, _, _)
upsert_enrollments_from(rows, i, st, prog_uuid_by_id, acct_uuid_by_id, wbFail) ==
    IF i > Len(rows) THEN st
    ELSE IF ~EnrollmentResolves(rows[i], prog_uuid_by_id, acct_uuid_by_id)
         THEN upsert_enrollments_from(rows, i + 1, st, prog_uuid_by_id, acct_uuid_by_id, wbFail)
         ELSE upsert_enrollments_from(rows, i + 1,
                                      UpsertOne(st, rows[i], EnrollmentRow, wbFail),
                                      prog_uuid_by_id, acct_uuid_by_id, wbFail)

\* upsert_enrollments(db, rows, prog_uuid_by_id, acct_uuid_by_id) -> enr_uuid_by_id
upsert_enrollments(db, sf, ctr, rows, prog_uuid_by_id, acct_uuid_by_id, wbFail) ==
    upsert_enrollments_from(rows, 1, [db |-> db, sf |-> sf, ctr |-> ctr, map |-> EmptyDict],
                            prog_uuid_by_id, acct_uuid_by_id, wbFail)

(***************************************************************************)
(* upsert_enrollments applied to rows and mappings of the caller's choice. *)
(***************************************************************************)
\* an enrollment row as a query returns it
EnrollmentInput(id, ProgramId, AccountId, UUID__c) ==
    [Id |-> id, ProgramId |-> ProgramId, AccountId |-> AccountId, Active |-> TRUE,
     UUID__c |-> UUID__c]

\* id -> uuid mappings as upsert_programs and upsert_participants return them
MappingOver(ids) == [id \in ids |-> GivenUuid(id)]

UpsertEnrollments ==
    \E p1 \in {"P1", "P3"}, p2 \in {"P1", "P3"}, a1 \in {"A1", "A2", NULL},
       u2 \in {NULL, GivenUuid("E2")},
       progIds \in {{"P1"}, {"P1", "P3"}}, acctIds \in {{"A1"}, {"A1", "A2"}} :
        LET rows == << EnrollmentInput("E1", p1, a1, GivenUuid("E1")),
                       EnrollmentInput("E2", p2, "A1", u2),
                       EnrollmentInput("E3", "P1", "A1", GivenUuid("E3")) >>
            prog_uuid_by_id == MappingOver(progIds)
            acct_uuid_by_id == MappingOver(acctIds)
            s == upsert_enrollments(program_enrollments, sfEnrollments, uuidCounter, rows,
                                    prog_uuid_by_id, acct_uuid_by_id, {})
        IN  /\ s.ctr <= MaxUuid
            /\ program_enrollments' = s.db
            /\ sfEnrollments' = s.sf
            /\ uuidCounter' = s.ctr
            /\ lastOp' = [op |-> "upsert_enrollments", ok |-> TRUE,
                          out |-> [rows |-> rows, progIds |-> progIds, acctIds |-> acctIds,
                                   enr_uuid_by_id |-> s.map]]
            /\ UNCHANGED <<programs, participants, sfPrograms, sfAccounts, writeMissing,
                           pushVars, auditLog, processVars>>

(***************************************************************************)
(* SyncRunner.run_full_sync.  remote names what the remote side does in    *)
(* this cycle: every call answers ("ok"), one of the queries fails, or the  *)
(* accounts query fails with INVALID_FIELD and the fallback query runs.    *)
(***************************************************************************)
RemoteOutcomes ==
    {"ok", "fail_programs", "fail_enrollments", "fail_accounts",
     "accounts_fallback", "accounts_fallback_fail"}

IdsOf(rows) == {rows[i].Id : i \in 1..Len(rows)}

\* everything one cycle computes, from the state it starts in
FullSync(remote, wbFail) ==
    LET progs    == fetch_programs(sfPrograms)
        prog_ids == {id \in IdsOf(progs) : id # NULL}
        enrs     == fetch_enrollments_for_programs(sfEnrollments, prog_ids)
        acct_ids == {enrs[i].AccountId : i \in 1..Len(enrs)} \ {NULL}
        accts    == fetch_accounts(sfAccounts, acct_ids,
                                   remote \in {"accounts_fallback", "accounts_fallback_fail"})
        issued   == CASE remote \in {"ok", "fail_programs"} -> TRUE
                      [] remote = "fail_enrollments" -> prog_ids # {}
                      [] OTHER -> acct_ids # {}
        ok       == remote \in {"ok", "accounts_fallback"}
        s1 == upsert_programs(programs, sfPrograms, uuidCounter, progs, wbFail)
        s2 == upsert_participants(participants, sfAccounts, s1.ctr, accts, wbFail)
        s3 == upsert_enrollments(program_enrollments, sfEnrollments, s2.ctr, enrs,
                                 s1.map, s2.map, wbFail)
    IN  [issued |-> issued, ok |-> ok,
         fetched |-> IdsOf(progs) \cup IdsOf(accts) \cup IdsOf(enrs),
         progs |-> s1, accts |-> s2, enrs |-> s3,
         counts |-> [programs     |-> CountRows(s1.db),
                     participants |-> CountRows(s2.db),
                     enrollments  |-> CountRows(s3.db)]]

\* the ids whose write-back may be attempted in a cycle started now
WriteBackCandidates ==
    IF writeMissing
    THEN {id \in FullSync("ok", {}).fetched :
            \/ id \in DOMAIN sfPrograms /\ ~Truthy(sfPrograms[id].UUID__c)
            \/ id \in DOMAIN sfAccounts /\ ~Truthy(sfAccounts[id].UUID__c)
            \/ id \in DOMAIN sfEnrollments /\ ~Truthy(sfEnrollments[id].UUID__c)}
    ELSE {}

\* POST /sync/run-full, POST /outreach/sync, the nightly job: one full cycle
RunFullSync ==
    \E remote \in RemoteOutcomes, wbFail \in SUBSET WriteBackCandidates :
        LET c == FullSync(remote, wbFail) IN
        /\ c.issued
        /\ remote \notin {"ok", "accounts_fallback"} => wbFail = {}
        /\ IF c.ok
           THEN /\ c.enrs.ctr <= MaxUuid
                /\ programs' = c.progs.db
                /\ participants' = c.accts.db
                /\ program_enrollments' = c.enrs.db
                /\ sfPrograms' = c.progs.sf
                /\ sfAccounts' = c.accts.sf
                /\ sfEnrollments' = c.enrs.sf
                /\ uuidCounter' = c.enrs.ctr
                /\ lastOp' = [op |-> "run_full_sync", ok |-> TRUE, out |-> c.counts]
           ELSE /\ lastOp' = [op |-> "run_full_sync", ok |-> FALSE, out |-> "error"]
                /\ UNCHANGED <<programs, participants, program_enrollments,
                               sfPrograms, sfAccounts, sfEnrollments, uuidCounter>>
        /\ UNCHANGED <<writeMissing, pushVars, auditLog, processVars>>

\* process start (main.py): init_schema_and_seed().  schema names what opening
\* the store and ensure_schema do: "ok", or "conflict" (an exception), after
\* which reset_database deletes the store file and creates an empty one
Startup ==
    \E schema \in {"ok", "conflict"} :
        /\ programs' = init_schema_and_seed(IF schema = "ok" THEN programs ELSE {})
        /\ participants' = IF schema = "ok" THEN participants ELSE {}
        /\ program_enrollments' = IF schema = "ok" THEN program_enrollments ELSE {}
        /\ outreach_encounters' = IF schema = "ok" THEN outreach_encounters ELSE {}
        /\ new_client_intakes' = IF schema = "ok" THEN new_client_intakes ELSE {}
        /\ lastOp' = [op |-> "startup", ok |-> TRUE, out |-> schema]
        /\ UNCHANGED <<sfPrograms, sfAccounts, sfEnrollments, uuidCounter, writeMissing,
                       sfAccountFields, sfIngested, pushHist, auditLog, processVars>>

(***************************************************************************)
(* Audit Relay: AuditLogService.log_action.  audit names what the remote    *)
(* create of the Audit_Log__c record does: "ok", "sf_error" (SFError) or   *)
(* "error" (any other exception, a timeout included).                      *)
(***************************************************************************)
AuditOutcomes == {"ok", "sf_error", "error"}

\* a remote store that keeps one record per Action__c, the latest
sf_upsert_audit(log, written) ==
    SelectSeq(log, LAMBDA r : \A i \in 1..Len(written) : r.Action__c # written[i].Action__c)
        \o written

\* SalesforceClient.create("Audit_Log__c", record): POST /sobjects/Audit_Log__c,
\* which adds one record to the remote object
sf_create_audit(log, written) == log \o written

\* a log_action whose second except clause re-raises
log_action_reraising(record, audit) ==
    [written |-> IF audit = "ok" THEN <<record>> ELSE <<>>,
     errors  |-> IF audit = "ok" THEN <<>> ELSE <<"audit_log: " \o audit>>,
     raised  |-> audit = "error"]

\* what one log_action call does: the record is written, or the failure is
\* logged with logger.error; neither except clause re-raises
log_action(record, audit) ==
    [written |-> IF audit = "ok" THEN <<record>> ELSE <<>>,
     errors  |-> IF audit = "ok" THEN <<>> ELSE <<"audit_log: " \o audit>>,
     raised  |-> FALSE]

(***************************************************************************)
(* Audit Relay: the audit integration (middleware/audit_integration.py)    *)
(* and the logging middleware (middleware/logging_with_audit.py).          *)
(***************************************************************************)
\* path.startswith(prefix)
StartsWith(path, prefix) ==
    Len(prefix) <= Len(path) /\ SubSeq(path, 1, Len(prefix)) = prefix

\* PHI_ACCESS_PATTERNS, in the dict's order
PHI_ACCESS_PATTERNS ==
    << [pattern |-> "/api/quick-person-account", action |-> "CREATE_PERSON"],
       [pattern |-> "/api/person",               action |-> "ACCESS_PERSON"],
       [pattern |-> "/api/sync",                 action |-> "SYNC_DATA"],
       [pattern |-> "/api/interaction-summary",  action |-> "ACCESS_INTERACTION"],
       [pattern |-> "/api/cases",                action |-> "ACCESS_CASE"],
       [pattern |-> "/api/ssrs",                 action |-> "ACCESS_ASSESSMENT"],
       [pattern |-> "/api/benefits",             action |-> "ACCESS_BENEFITS"],
       [pattern |-> "/api/disburse",             action |-> "DISBURSE_BENEFIT"] >>

NON_PHI_ENDPOINTS == {"/health", "/api/health", "/docs", "/openapi.json", "/redoc"}

\* logging_with_audit.EXCLUDED_ENDPOINTS
EXCLUDED_ENDPOINTS == {"/health", "/docs", "/openapi.json", "/redoc"}

\* a classification by the exclusion set alone
is_not_excluded(path) == ~\E excluded \in NON_PHI_ENDPOINTS : StartsWith(path, excluded)

\* AuditIntegration._is_phi_endpoint(path)
is_phi_endpoint(path) ==
    IF \E excluded \in NON_PHI_ENDPOINTS : StartsWith(path, excluded) THEN FALSE
    ELSE \E i \in 1..Len(PHI_ACCESS_PATTERNS) : StartsWith(path, PHI_ACCESS_PATTERNS[i].pattern)

UpperChar(c) ==
    CASE c = "a" -> "A" [] c = "b" -> "B" [] c = "c" -> "C" [] c = "d" -> "D"
      [] c = "e" -> "E" [] c = "f" -> "F" [] c = "g" -> "G" [] c = "h" -> "H"
      [] c = "i" -> "I" [] c = "j" -> "J" [] c = "k" -> "K" [] c = "l" -> "L"
      [] c = "m" -> "M" [] c = "n" -> "N" [] c = "o" -> "O" [] c = "p" -> "P"
      [] c = "q" -> "Q" [] c = "r" -> "R" [] c = "s" -> "S" [] c = "t" -> "T"
      [] c = "u" -> "U" [] c = "v" -> "V" [] c = "w" -> "W" [] c = "x" -> "X"
      [] c = "y" -> "Y" [] c = "z" -> "Z" [] OTHER -> c

\* str.upper()
RECURSIVE UpperFrom(_, _)
UpperFrom(text, i) ==
    IF i > Len(text) THEN "" ELSE UpperChar(SubSeq(text, i, i)) \o UpperFrom(text, i + 1)

Upper(text) == UpperFrom(text, 1)

\* the fallback of _get_action_type alone
method_actions(raw_method, path) ==
    LET method == Upper(raw_method)
    IN  CASE method = "GET" -> "VIEW"
          [] method = "POST" -> "CREATE"
          [] method \in {"PUT", "PATCH"} -> "MODIFY"
          [] method = "DELETE" -> "DELETE"
          [] OTHER -> "OTHER"

\* AuditIntegration._get_action_type(request)
get_action_type(raw_method, path) ==
    LET method == Upper(raw_method)
        hits == {i \in 1..Len(PHI_ACCESS_PATTERNS) :
                    StartsWith(path, PHI_ACCESS_PATTERNS[i].pattern)}
    IN  IF hits # {}
        THEN LET action == PHI_ACCESS_PATTERNS[CHOOSE i \in hits : \A j \in hits : i <= j].action
             IN  CASE method = "POST" -> action \o "_CREATE"
                   [] method \in {"PUT", "PATCH"} -> action \o "_MODIFY"
                   [] method = "DELETE" -> action \o "_DELETE"
                   [] OTHER -> action
        ELSE CASE method = "GET" -> "VIEW"
               [] method = "POST" -> "CREATE"
               [] method \in {"PUT", "PATCH"} -> "MODIFY"
               [] method = "DELETE" -> "DELETE"
               [] OTHER -> "OTHER"

\* dict(request.query_params) if request.query_params else None
QueryParamsJson(query_params) ==
    IF DOMAIN query_params = {} THEN Str(NULL)
    ELSE Dict([key \in DOMAIN query_params |-> Str(query_params[key])])

\* the audit_json dict log_api_access builds; log_action stores
\* json.dumps(audit_json)[:131000], kept here as the structure it serialises
AuditJson(method, path, query_params, response_status) ==
    LET base == [request_id        |-> Str("request-id"),
                 method            |-> Str(method),
                 path              |-> Str(path),
                 query_params      |-> QueryParamsJson(query_params),
                 status_code       |-> Str(ToString(response_status)),
                 entity_count      |-> Str("0"),
                 entities_accessed |-> List(<<>>)]
    IN  Dict(IF response_status < 400 THEN base
             ELSE [key \in DOMAIN base \cup {"error", "error_type"} |->
                      CASE key = "error" -> Str("HTTP " \o ToString(response_status))
                        [] key = "error_type" -> Str("FAILED_ACCESS_ATTEMPT")
                        [] OTHER -> base[key]])

\* AuditIntegration.log_api_access(request, response_status, ...): returns at
\* once for a non-PHI path; otherwise builds the record and calls log_action
\* inside try/except Exception
log_api_access(method, path, query_params, response_status, audit) ==
    IF ~is_phi_endpoint(path)
    THEN [attempted |-> FALSE, written |-> <<>>, errors |-> <<>>, raised |-> FALSE]
    ELSE LET a == log_action([Action__c |-> get_action_type(method, path),
                              UUID__c |-> NULL,
                              Status__c |-> IF response_status < 400 THEN "SUCCESS"
                                            ELSE "FAILURE",
                              Audit_JSON__c |-> AuditJson(method, path, query_params,
                                                          response_status)], audit)
         IN  [attempted |-> TRUE,
              written   |-> a.written,
              errors    |-> a.errors \o (IF a.raised
                                         THEN <<"Failed to create audit log for " \o path>>
                                         ELSE <<>>),
              raised    |-> FALSE]

\* the query parameters of a request, by the name of the choice
QueryParams(choice) ==
    CASE choice = "token" -> [key \in {"access_token"} |-> "tok-123"]
      [] choice = "ssn"   -> [key \in {"q", "SSN"} |-> IF key = "q" THEN "smith" ELSE "078-05-1120"]
      [] choice = "name"  -> [key \in {"q"} |-> "smith"]
      [] OTHER -> EmptyDict

Methods == {"GET", "POST"}

\* request paths: excluded from logging, non-PHI, PHI, and matching no pattern
Paths == {"/health", "/api/health", "/api/person/p1", "/api/users"}

\* what call_next(request) does: a response with this status, or an exception
HandlerOutcomes ==
    {[kind |-> "response", status |-> 200], [kind |-> "response", status |-> 500],
     [kind |-> "exception", status |-> 0]}

\* AuditLoggingMiddleware.__call__(request, call_next)
Middleware ==
    \E method \in Methods, path \in Paths, handler \in HandlerOutcomes,
       audit \in AuditOutcomes :
        LET excluded == \E e \in EXCLUDED_ENDPOINTS : StartsWith(path, e)
            raised   == handler.kind = "exception"
            reached  == ~excluded /\ ~raised      \* the audit block is reached
            la       == log_api_access(method, path, QueryParams("none"), handler.status, audit)
        IN  /\ ~(reached /\ la.attempted) => audit = "ok"
            /\ auditLog' = sf_create_audit(auditLog, IF reached THEN la.written ELSE <<>>)
            /\ Len(auditLog') <= MaxAudit
            /\ lastOp' = [op |-> "middleware", ok |-> ~raised,
                          out |-> [method |-> method, path |-> path, handler |-> handler,
                                   response |-> handler,
                                   excluded |-> excluded,
                                   auditAttempted |-> reached /\ la.attempted,
                                   audit |-> audit,
                                   auditRaised |-> reached /\ la.raised,
                                   errors |-> (IF raised /\ ~excluded THEN <<"HTTP_ERROR">> ELSE <<>>)
                                       \o (IF reached THEN la.errors ELSE <<>>)
                                       \o (IF reached /\ la.raised
                                           THEN <<"Failed to log to Salesforce audit trail">>
                                           ELSE <<>>)]]
            /\ UNCHANGED <<pullVars, pushVars, processVars>>

\* methods and paths a function-level specification applies log_api_access to
AccessMethods == {"GET", "HEAD", "OPTIONS", "POST", "PUT", "PATCH", "DELETE", "post"}

AccessPaths ==
    {"/api/quick-person-account", "/api/person/p1", "/api/personnel", "/api/perso",
     "/api/sync/upload", "/api/interaction-summary/i1", "/api/cases", "/api/ssrs/s1",
     "/api/benefits", "/api/disburse/b1", "/API/person", "/api/users", "/",
     "/health", "/healthz", "/api/health", "/api/healthcheck", "/docs", "/openapi.json",
     "/redoc"}

\* audit_integration.log_api_access(request, response_status) applied to the request
LogApiAccess ==
    \E audit \in AuditOutcomes :
        LET la == log_api_access(request.method, request.path, QueryParams(request.query),
                                 request.status, audit)
        IN  /\ request.kind = "api"
            /\ ~la.attempted => audit = "ok"
            /\ auditLog' = sf_create_audit(auditLog, la.written)
            /\ Len(auditLog') <= MaxAudit
            /\ lastOp' = [op |-> "log_api_access", ok |-> TRUE,
                          out |-> [attempted |-> la.attempted, audit |-> audit,
                                   action_type |-> IF la.attempted
                                                   THEN get_action_type(request.method,
                                                                        request.path)
                                                   ELSE NULL,
                                   written |-> Len(la.written), errors |-> la.errors]]
            /\ UNCHANGED <<pullVars, pushVars, processVars>>

(***************************************************************************)
(* Push / Outbox Path.  remote names what the remote side does with the    *)
(* submission: "ok"; "fail" (no effect, the call raises); "lost" (the      *)
(* record is created but the response never arrives, the call raises);     *)
(* "rejected" (the composite procedure answers without success).           *)
(***************************************************************************)
ClientIds == {"c1", "c2"}        \* localIds generated on devices
EncounterIds == {"e1"}           \* encounterUuids generated on devices

\* locally originated records in the cache
ItemCount ==
    Cardinality(outreach_encounters) + Cardinality(new_client_intakes)
        + Cardinality({r \in participants : r.uuid \notin {GivenUuid("A1")}})

\* the Id the remote side gives the next Account it creates
NextAccountId(sfA) == "N" \o ToString(Cardinality(DOMAIN sfA) + 1)

\* create_person_account(person): POST of the describe-filtered payload;
\* a null or blank value, or a field the describe does not list, is not sent
create_person_account(sfA, fields, person_uuid, remote) ==
    LET id  == NextAccountId(sfA)
        rec == [Id |-> id, IsPersonAccount |-> TRUE,
                UUID__c |-> IF IsNonBlankStr(person_uuid) /\ "UUID__c" \in fields
                            THEN person_uuid ELSE NULL]
    IN  [sf     |-> IF remote \in {"ok", "lost"}
                    THEN [x \in DOMAIN sfA \cup {id} |-> IF x = id THEN rec ELSE sfA[x]]
                    ELSE sfA,
         raised |-> remote # "ok",
         id     |-> IF remote = "ok" THEN id ELSE NULL]

\* a lookup that never finds the account
NoExistingAccount(sfA, localId) == {}

\* SELECT Id FROM Account WHERE UUID__c = '<localId>' LIMIT 1: the matching ids
ExistingAccountIds(sfA, localId) ==
    {id \in DOMAIN sfA : sfA[id].UUID__c = localId}

\* the remote side rejects a query naming a field the object does not have
QueryByUuidFails(fields, remote) == "UUID__c" \notin fields \/ remote = "query_fail"

Remember(hist, acks, localId, created, lost) ==
    [acked    |-> hist.acked \cup acks,
     created  |-> IF created # NULL /\ localId \notin DOMAIN hist.created
                  THEN DictSet(hist.created, localId, created) ELSE hist.created,
     lost     |-> IF lost THEN hist.lost \cup {localId} ELSE hist.lost]

\* POST /sync/PersonAccount: sync_person_account(data)
\* audit1 is the outcome of the audit write on the success path, audit2 of the
\* one in the except clause; ids and audits are the inputs a specification draws
SyncPersonAccount(ids, audits) ==
    \E localId \in ids, remote \in {"ok", "fail", "lost", "query_fail"},
       audit1 \in audits, audit2 \in audits :
        LET qfail    == QueryByUuidFails(sfAccountFields, remote)
            existing == ExistingAccountIds(sfAccounts, localId)
            found    == ~qfail /\ existing # {}
            cr       == create_person_account(sfAccounts, sfAccountFields, localId, remote)
            created_new == ~qfail /\ ~found /\ ~cr.raised
            pushed   == found \/ created_new
        IN  \E sf_id \in (IF found THEN existing ELSE {cr.id}) :
            LET a1 == log_action([Action__c |-> IF created_new THEN "PERSON_ACCOUNT_CREATE"
                                                ELSE "PERSON_ACCOUNT_SYNC",
                                  UUID__c |-> localId,
                                  Status__c |-> IF created_new THEN "Created" ELSE "Synced"],
                                 audit1)
                a2 == log_action([Action__c |-> "PERSON_ACCOUNT_SYNC", UUID__c |-> localId,
                                  Status__c |-> "Failed"], audit2)
                inExcept == ~pushed \/ a1.raised
                written  == (IF pushed THEN a1.written ELSE <<>>)
                              \o (IF inExcept THEN a2.written ELSE <<>>)
                errors   == (IF pushed THEN a1.errors ELSE <<>>)
                              \o (IF inExcept THEN <<"sync: SF sync_person_account failed">> \o a2.errors
                                  ELSE <<>>)
            IN  /\ (qfail \/ found) => remote \in {"ok", "query_fail"}
                /\ ~pushed => audit1 = audit2
                /\ (pushed /\ ~a1.raised) => audit2 = audit1
                /\ sfAccounts' = IF qfail \/ found THEN sfAccounts ELSE cr.sf
                /\ auditLog' = sf_create_audit(auditLog, written)
                /\ Len(auditLog') <= MaxAudit
                /\ Cardinality(DOMAIN sfAccounts') <= Len(AccountOrder) + MaxCreated
                /\ pushHist' = Remember(pushHist, IF pushed THEN {localId} ELSE {}, localId,
                                        IF ~qfail /\ ~found /\ remote \in {"ok", "lost"}
                                        THEN NextAccountId(sfAccounts) ELSE NULL,
                                        ~qfail /\ ~found /\ remote = "lost")
                /\ lastOp' = [op |-> "sync_person_account", ok |-> ~inExcept,
                              out |-> [status |-> IF inExcept THEN 500 ELSE 200,
                                       localId |-> localId,
                                       salesforceId |-> IF inExcept THEN NULL ELSE sf_id,
                                       pushed |-> pushed, created |-> created_new,
                                       audit |-> <<audit1, audit2>>,
                                       auditRaised |-> a1.raised \/ (inExcept /\ a2.raised),
                                       errors |-> errors]]
                /\ UNCHANGED <<programs, participants, program_enrollments, sfPrograms,
                               sfEnrollments, uuidCounter, writeMissing,
                               outreach_encounters, new_client_intakes, sfAccountFields,
                               sfIngested, processVars>>

\* UPDATE t SET sfid = ? WHERE uuid = ?
UpdateSfid(table, uuid, sfid) ==
    {IF r.uuid = uuid THEN [r EXCEPT !.sfid = sfid] ELSE r : r \in table}

\* UPDATE t SET synced = TRUE WHERE id = ?
MarkSynced(table, id) ==
    {IF r.id = id THEN [r EXCEPT !.synced = TRUE] ELSE r : r \in table}

\* POST /quick-person-account: create_quick_person_account(payload)
QuickPersonAccount ==
    \E remote \in {"ok", "fail", "lost"} :
        LET local_id == uuid4(uuidCounter + 1)
            stored   == InsertOrReplace(participants, [uuid |-> local_id, sfid |-> NULL])
            cr       == create_person_account(sfAccounts, sfAccountFields, local_id, remote)
        IN  /\ uuidCounter < MaxUuid /\ ItemCount < MaxItems
            /\ uuidCounter' = uuidCounter + 1
            /\ sfAccounts' = cr.sf
            /\ Cardinality(DOMAIN sfAccounts') <= Len(AccountOrder) + MaxCreated
            /\ participants' = IF cr.raised THEN stored ELSE UpdateSfid(stored, local_id, cr.id)
            /\ pushHist' = Remember(pushHist, IF cr.raised THEN {} ELSE {local_id}, local_id,
                                    IF remote \in {"ok", "lost"}
                                    THEN NextAccountId(sfAccounts) ELSE NULL,
                                    remote = "lost")
            /\ lastOp' = [op |-> "create_quick_person_account", ok |-> TRUE,
                          out |-> [status |-> 200, localId |-> local_id,
                                   salesforceId |-> cr.id, synced |-> ~cr.raised,
                                   pushed |-> ~cr.raised]]
            /\ UNCHANGED <<programs, program_enrollments, sfPrograms, sfEnrollments,
                           writeMissing, outreach_encounters, new_client_intakes,
                           sfAccountFields, sfIngested, auditLog, processVars>>

\* the remote composite procedure (ProgramEnrollmentService) processes an
\* encounter when the request reaches it and it does not reject it
Ingest(ingested, encounterUuid, remote) ==
    IF remote \in {"ok", "lost"} THEN Append(ingested, encounterUuid) ELSE ingested

\* POST /outreach-intake: submit_outreach_encounter(payload)
SubmitOutreachEncounter ==
    \E remote \in {"ok", "fail", "lost"} :
        LET encounter_id == uuid4(uuidCounter + 1)
            stored == outreach_encounters \cup {[id |-> encounter_id, synced |-> FALSE]}
            acked  == remote = "ok"
        IN  /\ uuidCounter < MaxUuid /\ ItemCount < MaxItems
            /\ uuidCounter' = uuidCounter + 1
            /\ sfIngested' = Ingest(sfIngested, encounter_id, remote)
            /\ outreach_encounters' = IF acked THEN MarkSynced(stored, encounter_id) ELSE stored
            /\ pushHist' = Remember(pushHist, IF acked THEN {encounter_id} ELSE {},
                                    encounter_id, NULL, remote = "lost")
            /\ lastOp' = [op |-> "submit_outreach_encounter", ok |-> TRUE,
                          out |-> [status |-> 200, encounterId |-> encounter_id,
                                   state |-> IF acked THEN "synced" ELSE "stored",
                                   synced |-> "absent", pushed |-> acked]]
            /\ UNCHANGED <<programs, participants, program_enrollments, sfPrograms,
                           sfAccounts, sfEnrollments, writeMissing, new_client_intakes,
                           sfAccountFields, auditLog, processVars>>

\* POST /new-client-intake: create_new_client_intake(payload), with
\* IntakeService.process_full_intake raising unless the response reports success
CreateNewClientIntake ==
    \E encounterUuid \in EncounterIds, remote \in {"ok", "fail", "lost", "rejected"} :
        LET intake_id == uuid4(uuidCounter + 1)
            stored == new_client_intakes \cup {[id |-> intake_id, synced |-> FALSE]}
            acked  == remote = "ok"
        IN  /\ uuidCounter < MaxUuid /\ ItemCount < MaxItems
            /\ uuidCounter' = uuidCounter + 1
            /\ sfIngested' = Ingest(sfIngested, encounterUuid, remote)
            /\ new_client_intakes' = IF acked THEN MarkSynced(stored, intake_id) ELSE stored
            /\ pushHist' = Remember(pushHist, IF acked THEN {intake_id} ELSE {},
                                    intake_id, NULL, remote = "lost")
            /\ lastOp' = [op |-> "create_new_client_intake", ok |-> TRUE,
                          out |-> [status |-> 200, encounterId |-> encounterUuid,
                                   synced |-> acked, pushed |-> acked]]
            /\ UNCHANGED <<programs, participants, program_enrollments, sfPrograms,
                           sfAccounts, sfEnrollments, writeMissing, outreach_encounters,
                           sfAccountFields, auditLog, processVars>>

\* a procedure that inserts the records of every request it processes
ProcedureInsert(records, encounterUuid) == Append(records, encounterUuid)

\* the remote composite procedure keys the records it creates by the
\* encounterUuid of the request: a request it has processed before creates
\* nothing (the procedure is Apex code deployed to the remote system)
ProcedureUpsert(records, encounterUuid) ==
    IF \E i \in 1..Len(records) : records[i] = encounterUuid
    THEN records ELSE Append(records, encounterUuid)

\* the remote record sets the procedure holds after the requests of ingested,
\* one entry per record set, named by its encounterUuid
RECURSIVE RemoteEncountersFrom(_, _)
RemoteEncountersFrom(ingested, n) ==
    IF n = 0 THEN <<>>
    ELSE ProcedureUpsert(RemoteEncountersFrom(ingested, n - 1), ingested[n])

RemoteEncounters(ingested) == RemoteEncountersFrom(ingested, Len(ingested))

(***************************************************************************)
(* The three application writes of api/outreach.py, one statement group    *)
(* at a time.  request is the call in flight: handler, pc (the group about  *)
(* to run), id (the uuid the handler drew) and trace (the groups that ran). *)
(***************************************************************************)
WriteHandlers ==
    {"create_quick_person_account", "submit_outreach_encounter", "create_new_client_intake"}

NewWrite(handler) ==
    [kind |-> "write", handler |-> handler, pc |-> "store", id |-> NULL, trace |-> <<>>]

\* a handler that goes on to the remote call whatever the local insert did
AfterStoreAlways(store) == "remote"

\* the insert is inside the outer try: when it raises, the handler's outer
\* except clause turns it into HTTP 500 and nothing else runs
AfterStore(store) == IF store = "ok" THEN "remote" ELSE "failed"

WriteAnswer(status, synced) ==
    [status |-> status, localId |-> request.id, synced |-> synced]

\* local_id = str(uuid.uuid4()); db = DuckClient(); CREATE TABLE IF NOT
\* EXISTS ...; INSERT ...; db.close().  store is "ok", or "fail" when opening
\* the store or a statement raises
WriteStore ==
    \E store \in {"ok", "fail"} :
        LET id == uuid4(uuidCounter + 1)
            h  == request.handler
            ok == store = "ok"
        IN  /\ request.kind = "write" /\ request.pc = "store"
            /\ uuidCounter < MaxUuid
            /\ uuidCounter' = uuidCounter + 1
            /\ participants' =
                   IF ok /\ h = "create_quick_person_account"
                   THEN InsertOrReplace(participants, [uuid |-> id, sfid |-> NULL])
                   ELSE participants
            /\ outreach_encounters' =
                   IF ok /\ h = "submit_outreach_encounter"
                   THEN outreach_encounters \cup {[id |-> id, synced |-> FALSE]}
                   ELSE outreach_encounters
            /\ new_client_intakes' =
                   IF ok /\ h = "create_new_client_intake"
                   THEN new_client_intakes \cup {[id |-> id, synced |-> FALSE]}
                   ELSE new_client_intakes
            /\ request' = [request EXCEPT
                   !.pc = AfterStore(store), !.id = id,
                   !.trace = Append(@, IF ok THEN "local_store" ELSE "local_store_failed")]
            /\ lastOp' = IF ok THEN lastOp
                         ELSE [op |-> h, ok |-> FALSE,
                               out |-> [status |-> 500, localId |-> id, synced |-> FALSE]]
            /\ UNCHANGED <<programs, program_enrollments, sfPrograms, sfAccounts,
                           sfEnrollments, writeMissing, sfAccountFields, sfIngested,
                           pushHist, auditLog, cycle, token_cache, clock, threadVars>>

\* the remote call of the inner try: create_person_account, ingest_encounter
\* or process_full_intake
WriteRemote ==
    \E remote \in {"ok", "fail", "lost"}, encounterUuid \in EncounterIds :
        LET h  == request.handler
            cr == create_person_account(sfAccounts, sfAccountFields, request.id, remote)
            sent == IF h = "submit_outreach_encounter" THEN request.id ELSE encounterUuid
            acked == remote = "ok"
        IN  /\ request.kind = "write" /\ request.pc = "remote"
            /\ sfAccounts' = IF h = "create_quick_person_account" THEN cr.sf ELSE sfAccounts
            /\ Cardinality(DOMAIN sfAccounts') <= Len(AccountOrder) + MaxCreated
            /\ sfIngested' = IF h = "create_quick_person_account" THEN sfIngested
                             ELSE Ingest(sfIngested, sent, remote)
            /\ pushHist' = Remember(pushHist, IF acked THEN {request.id} ELSE {}, request.id,
                                    IF h = "create_quick_person_account"
                                       /\ remote \in {"ok", "lost"}
                                    THEN NextAccountId(sfAccounts) ELSE NULL,
                                    remote = "lost")
            /\ request' = [request EXCEPT !.pc = IF acked THEN "mark" ELSE "done",
                                          !.trace = Append(@, "remote_call")]
            /\ lastOp' = IF acked THEN lastOp
                         ELSE [op |-> h, ok |-> TRUE, out |-> WriteAnswer(200, FALSE)]
            /\ UNCHANGED <<programs, participants, program_enrollments, sfPrograms,
                           sfEnrollments, uuidCounter, writeMissing, outreach_encounters,
                           new_client_intakes, sfAccountFields, auditLog, cycle,
                           token_cache, clock, threadVars>>

\* UPDATE ... SET sfid = ? / SET synced = TRUE, still inside the inner try:
\* when it raises the handler answers as it does for a failed remote call
WriteMark ==
    \E store \in {"ok", "fail"} :
        LET h  == request.handler
            ok == store = "ok"
        IN  /\ request.kind = "write" /\ request.pc = "mark"
            /\ participants' =
                   IF ok /\ h = "create_quick_person_account"
                   THEN UpdateSfid(participants, request.id, pushHist.created[request.id])
                   ELSE participants
            /\ outreach_encounters' =
                   IF ok /\ h = "submit_outreach_encounter"
                   THEN MarkSynced(outreach_encounters, request.id) ELSE outreach_encounters
            /\ new_client_intakes' =
                   IF ok /\ h = "create_new_client_intake"
                   THEN MarkSynced(new_client_intakes, request.id) ELSE new_client_intakes
            /\ request' = [request EXCEPT !.pc = "done", !.trace = Append(@, "local_mark")]
            /\ lastOp' = [op |-> h, ok |-> TRUE, out |-> WriteAnswer(200, ok)]
            /\ UNCHANGED <<programs, program_enrollments, sfPrograms, sfAccounts,
                           sfEnrollments, uuidCounter, writeMissing, sfAccountFields,
                           sfIngested, pushHist, auditLog, cycle, token_cache, clock,
                           threadVars>>

\* the next request to one of the three endpoints arrives
WriteArrives ==
    \E handler \in WriteHandlers :
        /\ request.kind = "write" /\ request.pc \in {"done", "failed"}
        /\ uuidCounter < MaxUuid
        /\ request' = NewWrite(handler)
        /\ UNCHANGED <<pullVars, pushVars, auditLog, lastOp, cycle, token_cache, clock,
                       threadVars>>

\* SyncRunner.sync_notes_to_sf(notes): every note id is appended to synced_ids;
\* the loop body makes no remote call
sync_notes_to_sf(notes) == notes

NoteIds == {"n1", "n2"}

SyncNotesToSf ==
    \E notes \in SUBSET NoteIds :
        /\ notes # {}
        /\ lastOp' = [op |-> "sync_notes_to_sf", ok |-> TRUE,
                      out |-> [synced_ids |-> sync_notes_to_sf(notes)]]
        /\ UNCHANGED <<pullVars, pushVars, auditLog, processVars>>

(***************************************************************************)
(* Redaction (middleware/logging_with_audit.py, middleware/logging.py; the *)
(* two modules define the same function).                                  *)
(***************************************************************************)
REDACTED_FIELDS ==
    {"password", "token", "authorization", "secret", "key",
     "client_secret", "access_token", "refresh_token",
     "bearer", "api_key", "oauth_token", "jwt",
     "ssn", "credit_card", "pin", "cvv", "tax_id",
     "private_key", "rsa_key", "dsa_key",
     "sf_user_id", "instance_url", "consumer_key", "consumer_secret"}

REDACTED == "***REDACTED***"

MAX_DEPTH_REDACTED == "[REDACTED - MAX DEPTH]"

LowerChar(c) ==
    CASE c = "A" -> "a" [] c = "B" -> "b" [] c = "C" -> "c" [] c = "D" -> "d"
      [] c = "E" -> "e" [] c = "F" -> "f" [] c = "G" -> "g" [] c = "H" -> "h"
      [] c = "I" -> "i" [] c = "J" -> "j" [] c = "K" -> "k" [] c = "L" -> "l"
      [] c = "M" -> "m" [] c = "N" -> "n" [] c = "O" -> "o" [] c = "P" -> "p"
      [] c = "Q" -> "q" [] c = "R" -> "r" [] c = "S" -> "s" [] c = "T" -> "t"
      [] c = "U" -> "u" [] c = "V" -> "v" [] c = "W" -> "w" [] c = "X" -> "x"
      [] c = "Y" -> "y" [] c = "Z" -> "z" [] OTHER -> c

\* str.lower()
RECURSIVE LowerFrom(_, _)
LowerFrom(text, i) ==
    IF i > Len(text) THEN "" ELSE LowerChar(SubSeq(text, i, i)) \o LowerFrom(text, i + 1)

Lower(text) == LowerFrom(text, 1)

\* sub in text
Contains(text, sub) ==
    \E i \in 1..(Len(text) - Len(sub) + 1) : SubSeq(text, i, i + Len(sub) - 1) = sub

\* any(sensitive in key.lower() for sensitive in REDACTED_FIELDS)
IsSensitiveKey(key) == \E sensitive \in REDACTED_FIELDS : Contains(Lower(key), sensitive)

\* a depth test that lets one more level through
DepthExceededLate(depth, max_depth) == depth > max_depth

\* if depth >= max_depth
DepthExceeded(depth, max_depth) == depth >= max_depth

\* redact_dict_recursive(data, depth, max_depth)
RECURSIVE redact_dict_recursive(_, _, _)
redact_dict_recursive(data, depth, max_depth) ==
    IF DepthExceeded(depth, max_depth) THEN Str(MAX_DEPTH_REDACTED)
    ELSE CASE data.t = "d" ->
                Dict([key \in DOMAIN data.v |->
                        IF IsSensitiveKey(key) THEN Str(REDACTED)
                        ELSE IF data.v[key].t \in {"d", "l"}
                             THEN redact_dict_recursive(data.v[key], depth + 1, max_depth)
                             ELSE data.v[key]])
           [] data.t = "l" ->
                List([i \in 1..(IF Len(data.v) < 10 THEN Len(data.v) ELSE 10) |->
                        redact_dict_recursive(data.v[i], depth + 1, max_depth)])
           [] OTHER -> data

(***************************************************************************)
(* Inputs of the redaction: a chain of containers, outermost first, around *)
(* a leaf.  "d" is a dict holding the next level under the key "ctx" and a  *)
(* scalar under "note"; "s" a dict holding the next level under the         *)
(* sensitive key "Auth_Token"; "l" a list holding the next level.  The leaf *)
(* is a dict holding the scalar "secret" under one key, or a list holding  *)
(* it.                                                                     *)
(***************************************************************************)
MaxNest == 3          \* containers around the leaf
MaxDepthArg == 3      \* largest max_depth argument (the default is 3)

ContainerKinds == {"d", "s", "l"}

LeafKinds == {"access_token", "Authorization", "name", "list"}

LeafOf(leaf) ==
    IF leaf = "list" THEN List(<<Str("secret")>>)
    ELSE Dict([key \in {leaf} |-> Str("secret")])

RECURSIVE BuildFrom(_, _, _)
BuildFrom(kinds, i, leaf) ==
    IF i > Len(kinds) THEN LeafOf(leaf)
    ELSE CASE kinds[i] = "d" ->
                Dict([key \in {"ctx", "note"} |->
                        IF key = "ctx" THEN BuildFrom(kinds, i + 1, leaf)
                        ELSE Str("note-" \o ToString(i))])
           [] kinds[i] = "s" -> Dict([key \in {"Auth_Token"} |-> BuildFrom(kinds, i + 1, leaf)])
           [] OTHER -> List(<<BuildFrom(kinds, i + 1, leaf)>>)

\* redact_dict_recursive(request.data, 0, request.max_depth)
RedactRequest ==
    /\ request.kind = "redact"
    /\ lastOp' = [op |-> "redact_dict_recursive", ok |-> TRUE,
                  out |-> redact_dict_recursive(request.data, 0, request.max_depth)]
    /\ UNCHANGED <<pullVars, pushVars, auditLog, processVars>>

(***************************************************************************)
(* Redaction on the error path (middleware/error_handling.py).             *)
(***************************************************************************)
\* sensitive_fields of redact_dict_sensitive_fields
sensitive_fields ==
    {"password", "token", "authorization", "secret", "key",
     "client_secret", "access_token", "refresh_token",
     "credit_card", "ssn", "pii", "pin", "private_key",
     "jwt", "bearer", "api_key", "oauth_token"}

\* any(sensitive in key.lower() for sensitive in sensitive_fields)
IsSensitiveField(key) == \E sensitive \in sensitive_fields : Contains(Lower(key), sensitive)

\* redact_dict_sensitive_fields(data, depth, max_depth): at the bound, or on a
\* value that is not a dict, the value itself is returned; a list is looked
\* into only when its first item is a dict
RECURSIVE redact_dict_sensitive_fields(_, _, _)
redact_dict_sensitive_fields(data, depth, max_depth) ==
    IF depth >= max_depth \/ data.t # "d" THEN data
    ELSE Dict([key \in DOMAIN data.v |->
                 LET value == data.v[key] IN
                 IF IsSensitiveField(key) THEN Str(REDACTED)
                 ELSE IF value.t = "d"
                      THEN redact_dict_sensitive_fields(value, depth + 1, max_depth)
                 ELSE IF value.t = "l" /\ Len(value.v) > 0 /\ value.v[1].t = "d"
                      THEN List([i \in 1..Len(value.v) |->
                                   IF value.v[i].t = "d"
                                   THEN redact_dict_sensitive_fields(value.v[i], depth + 1,
                                                                     max_depth)
                                   ELSE value.v[i]])
                 ELSE value])

\* redact_dict_sensitive_fields(request.data, 0, request.max_depth)
RedactSensitiveFields ==
    /\ request.kind = "redact"
    /\ lastOp' = [op |-> "redact_dict_sensitive_fields", ok |-> TRUE,
                  out |-> redact_dict_sensitive_fields(request.data, 0, request.max_depth)]
    /\ UNCHANGED <<pullVars, pushVars, auditLog, processVars>>

(***************************************************************************)
(* Remote token cache (salesforce/sf_client.py).  _token_cache is None     *)
(* (<<>>) or the tuple (access_token, instance_url, expires_at_epoch).     *)
(***************************************************************************)
TOKEN_MARGIN == 30        \* _token_cache[2] - time.time() > 30
TOKEN_LIFETIME == 840     \* time.time() + 14 * 60

MaxClock == 900           \* the model's last second
TickSteps == {10, 400}    \* seconds that pass between two calls

\* a test that accepts any token not yet expired
TokenIsUnexpired(cache, now) == cache # <<>> /\ cache[3] - now > 0

\* _token_cache and (_token_cache[2] - time.time() > 30)
TokenIsFresh(cache, now) == cache # <<>> /\ cache[3] - now > TOKEN_MARGIN

\* _get_token(): auth names what the token endpoint answers, "ok" (status
\* 200, a new access token) or "fail" (any other status: SFAuthError)
get_token(cache, now, auth) ==
    IF TokenIsFresh(cache, now)
    THEN [cache |-> cache, contacted |-> FALSE, raised |-> FALSE, token |-> cache[1]]
    ELSE IF auth # "ok"
         THEN [cache |-> cache, contacted |-> TRUE, raised |-> TRUE, token |-> NULL]
         ELSE LET access_token == "token@" \o ToString(now)
              IN  [cache |-> <<access_token, "instance_url", now + TOKEN_LIFETIME>>,
                   contacted |-> TRUE, raised |-> FALSE, token |-> access_token]

\* one call of _get_token(), as every _sf(...) call makes
GetToken ==
    \E auth \in {"ok", "fail"} :
        LET r == get_token(token_cache, clock, auth)
        IN  /\ ~r.contacted => auth = "ok"
            /\ token_cache' = r.cache
            /\ lastOp' = [op |-> "_get_token", ok |-> ~r.raised,
                          out |-> [contacted |-> r.contacted, token |-> r.token]]
            /\ UNCHANGED <<pullVars, pushVars, auditLog, cycle, request, clock, threadVars>>

\* time passes
Tick ==
    \E step \in TickSteps :
        /\ clock + step <= MaxClock
        /\ clock' = clock + step
        /\ UNCHANGED <<pullVars, pushVars, auditLog, lastOp, cycle, request, token_cache,
                     threadVars>>

(***************************************************************************)
(* _get_token() called from several threads (the threadpool of the sync    *)
(* endpoints, the scheduler's thread).  The function takes no lock, so a    *)
(* call is a sequence of steps, one per read or write of the module global  *)
(* _token_cache; the expression _token_cache occurs four times in the       *)
(* cached branch (line 88 twice, line 89 twice) and each occurrence is a    *)
(* separate read of the global.  callers.issued counts the authentications  *)
(* the token endpoint has answered; authentication k issues                  *)
(* AccessToken(k) and InstanceUrl(k).                                       *)
(***************************************************************************)
Threads == {"t1", "t2", "t3"}

\* api/sync.py on an empty SQLite file: no Meta row, no note
EmptyNotesDb == [serverVersion |-> NULL, notes |-> {}]

AccessToken(k) == "token#" \o ToString(k)
InstanceUrl(k) == "url#" \o ToString(k)

IdleCaller == [pc |-> "idle", auth |-> 0, token |-> NULL, base |-> NULL]

NoCallers == [issued |-> 0, th |-> [t \in Threads |-> IdleCaller]]

\* a cache an earlier authentication (number 0) left, past its margin
ExpiredCache == <<AccessToken(0), InstanceUrl(0), TOKEN_MARGIN>>

CallerStep(t, c) == callers' = [callers EXCEPT !.th[t] = c]

RaceFrame == UNCHANGED <<pullVars, pushVars, auditLog, lastOp, cycle, request, clock,
                         describe_cache, parked, notes_db, meta>>

(***************************************************************************)
(* POST /sync/PersonAccount, one statement at a time.  sync_person_account *)
(* is a plain def, so each request runs on a thread of the server's pool;  *)
(* callers.th[t] is the request thread t serves: pc the statement about to *)
(* run, sf_id and created_new the handler's locals, failed whether the try  *)
(* block has raised.                                                       *)
(***************************************************************************)
Submitters == {"t1", "t2"}

MaxSubmissions == 3    \* requests the model lets arrive; callers.issued counts them

IdleSubmission ==
    [pc |-> "idle", localId |-> NULL, sf_id |-> NULL, created_new |-> FALSE, failed |-> FALSE]

NoSubmissions == [issued |-> 0, th |-> [t \in Submitters |-> IdleSubmission]]

SubmissionFrame ==
    UNCHANGED <<programs, participants, program_enrollments, sfPrograms, sfEnrollments,
                uuidCounter, writeMissing, outreach_encounters, new_client_intakes,
                sfAccountFields, sfIngested, pushHist, cycle, request, token_cache, clock,
                describe_cache, parked, notes_db, meta>>

\* a request for localId arrives and is handed to thread t
PersonArrives ==
    \E t \in Submitters, localId \in ClientIds :
        /\ callers.th[t].pc \in {"idle", "answered"}
        /\ callers.issued < MaxSubmissions
        /\ callers' = [issued |-> callers.issued + 1,
                       th |-> [callers.th EXCEPT ![t] = [IdleSubmission EXCEPT
                                                           !.pc = "query",
                                                           !.localId = localId]]]
        /\ UNCHANGED <<sfAccounts, auditLog, lastOp>>
        /\ SubmissionFrame

\* existing = query_soql("SELECT Id FROM Account WHERE UUID__c = '<localId>' LIMIT 1")
PersonQueries ==
    \E t \in Submitters, remote \in {"ok", "query_fail"} :
        LET c == callers.th[t]
            existing == ExistingAccountIds(sfAccounts, c.localId)
        IN  /\ c.pc = "query"
            /\ IF QueryByUuidFails(sfAccountFields, remote)
               THEN CallerStep(t, [c EXCEPT !.pc = "audit", !.failed = TRUE])
               ELSE IF existing = {}
                    THEN CallerStep(t, [c EXCEPT !.pc = "create"])
                    ELSE \E sf_id \in existing :
                            CallerStep(t, [c EXCEPT !.pc = "audit", !.sf_id = sf_id])
            /\ UNCHANGED <<sfAccounts, auditLog, lastOp>>
            /\ SubmissionFrame

\* sf_id = create_person_account(data.person); created_new = True
PersonCreates ==
    \E t \in Submitters, remote \in {"ok", "fail", "lost"} :
        LET c  == callers.th[t]
            cr == create_person_account(sfAccounts, sfAccountFields, c.localId, remote)
        IN  /\ c.pc = "create"
            /\ sfAccounts' = cr.sf
            /\ Cardinality(DOMAIN sfAccounts') <= Len(AccountOrder) + MaxCreated
            /\ IF cr.raised
               THEN CallerStep(t, [c EXCEPT !.pc = "audit", !.failed = TRUE])
               ELSE CallerStep(t, [c EXCEPT !.pc = "audit", !.sf_id = cr.id,
                                            !.created_new = TRUE])
            /\ UNCHANGED <<auditLog, lastOp>>
            /\ SubmissionFrame

\* audit_logger.log_action(...) and the answer: the return of the try block,
\* or the except clause's log_action and HTTPException(500)
PersonAnswers ==
    \E t \in Submitters, audit \in AuditOutcomes :
        LET c == callers.th[t]
            a == log_action([Action__c |-> IF c.created_new THEN "PERSON_ACCOUNT_CREATE"
                                           ELSE "PERSON_ACCOUNT_SYNC",
                             UUID__c |-> c.localId,
                             Status__c |-> IF c.failed THEN "Failed"
                                           ELSE IF c.created_new THEN "Created"
                                           ELSE "Synced"], audit)
        IN  /\ c.pc = "audit"
            /\ auditLog' = sf_create_audit(auditLog, a.written)
            /\ Len(auditLog') <= MaxAudit
            /\ CallerStep(t, [c EXCEPT !.pc = "answered"])
            /\ lastOp' = [op |-> "sync_person_account", ok |-> ~c.failed,
                          out |-> [status |-> IF c.failed THEN 500 ELSE 200,
                                   localId |-> c.localId, salesforceId |-> c.sf_id,
                                   created |-> c.created_new]]
            /\ UNCHANGED sfAccounts
            /\ SubmissionFrame

\* a thread enters _get_token()
GetTokenCall ==
    \E t \in Threads :
        /\ callers.th[t].pc = "idle"
        /\ CallerStep(t, [callers.th[t] EXCEPT !.pc = "test"])
        /\ UNCHANGED token_cache
        /\ RaceFrame

\* line 88, left operand: if _token_cache and ...
GetTokenTest ==
    \E t \in Threads :
        /\ callers.th[t].pc = "test"
        /\ CallerStep(t, [callers.th[t] EXCEPT
                              !.pc = IF token_cache # <<>> THEN "expiry" ELSE "post"])
        /\ UNCHANGED token_cache
        /\ RaceFrame

\* line 88, right operand: (_token_cache[2] - time.time() > 30)
GetTokenExpiry ==
    \E t \in Threads :
        /\ callers.th[t].pc = "expiry"
        /\ CallerStep(t, [callers.th[t] EXCEPT
                              !.pc = IF token_cache[3] - clock > TOKEN_MARGIN
                                     THEN "return_token" ELSE "post"])
        /\ UNCHANGED token_cache
        /\ RaceFrame

\* line 89, first element of the returned pair: _token_cache[0]
GetTokenReturnToken ==
    \E t \in Threads :
        /\ callers.th[t].pc = "return_token"
        /\ CallerStep(t, [callers.th[t] EXCEPT !.pc = "return_base", !.token = token_cache[1]])
        /\ UNCHANGED token_cache
        /\ RaceFrame

\* line 89, second element of the returned pair: _token_cache[1]
GetTokenReturnBase ==
    \E t \in Threads :
        /\ callers.th[t].pc = "return_base"
        /\ CallerStep(t, [callers.th[t] EXCEPT !.pc = "done", !.base = token_cache[2]])
        /\ UNCHANGED token_cache
        /\ RaceFrame

\* lines 91-103: the token request; any status but 200 raises SFAuthError
GetTokenPost ==
    \E t \in Threads, auth \in {"ok", "fail"} :
        /\ callers.th[t].pc = "post"
        /\ callers' = IF auth = "ok"
                      THEN [issued |-> callers.issued + 1,
                            th |-> [callers.th EXCEPT ![t].pc = "store",
                                                      ![t].auth = callers.issued + 1]]
                      ELSE [callers EXCEPT !.th[t].pc = "raised"]
        /\ UNCHANGED token_cache
        /\ RaceFrame

\* lines 105-106: the tuple is built and bound to the global in one store
GetTokenStore ==
    \E t \in Threads :
        LET c == callers.th[t]
        IN  /\ c.pc = "store"
            /\ token_cache' = <<AccessToken(c.auth), InstanceUrl(c.auth), clock + TOKEN_LIFETIME>>
            /\ CallerStep(t, [c EXCEPT !.pc = "done", !.token = AccessToken(c.auth),
                                       !.base = InstanceUrl(c.auth)])
            /\ RaceFrame

(***************************************************************************)
(* Describe caches (salesforce/sf_client.py).  describe_cache.by_name is    *)
(* _describe_cache, describe_cache.account_fields is _account_fields_cache  *)
(* (<<>> for None, <<names>> once set).  describe_cache.first is history:   *)
(* the result of the first successful describe of each key.  A describe     *)
(* result is the parsed JSON dict: keys are its top-level keys, fields the  *)
(* names under "fields".                                                    *)
(***************************************************************************)
NoDescribes == [by_name |-> EmptyDict, account_fields |-> <<>>, first |-> EmptyDict]

SObjects == {"Account", "account", "ACCOUNT", "Assessment__c"}

\* what the remote answers to GET .../describe: a description (two versions,
\* the object may change between calls), a 200 with no body or an empty JSON
\* object, for which _sf returns {}, or a status >= 400
DescribeAnswers == {"v1", "v2", "empty", "error"}

DescribeResult(answer) ==
    CASE answer = "v1" -> [keys |-> {"name", "fields"}, fields |-> {"Id", "Name"}]
      [] answer = "v2" -> [keys |-> {"name", "fields"}, fields |-> {"Id", "Name", "Extra__c"}]
      [] OTHER -> [keys |-> {}, fields |-> {}]

\* bool(d) of a dict
DictTruthy(d) == d.keys # {}

\* cached = _describe_cache.get(key); if cached
CachedIsTruthy(cache, key) == key \in DOMAIN cache /\ DictTruthy(cache[key])

\* SalesforceClient.describe(sobject)
describe(cache, sobject, answer) ==
    LET key == Lower(sobject)
    IN  IF CachedIsTruthy(cache, key)
        THEN [cache |-> cache, contacted |-> FALSE, raised |-> FALSE, result |-> cache[key]]
        ELSE IF answer = "error"
             THEN [cache |-> cache, contacted |-> TRUE, raised |-> TRUE,
                   result |-> DescribeResult("empty")]
             ELSE [cache |-> DictSet(cache, key, DescribeResult(answer)), contacted |-> TRUE,
                   raised |-> FALSE, result |-> DescribeResult(answer)]

\* _get_account_fields()
get_account_fields(cached, answer) ==
    IF cached # <<>>
    THEN [cache |-> cached, contacted |-> FALSE, raised |-> FALSE, result |-> cached[1]]
    ELSE IF answer = "error"
         THEN [cache |-> cached, contacted |-> TRUE, raised |-> TRUE, result |-> {}]
         ELSE [cache |-> <<DescribeResult(answer).fields>>, contacted |-> TRUE,
               raised |-> FALSE, result |-> DescribeResult(answer).fields]

\* the first successful result under key stays the recorded one
RecordFirst(first, key, raised, result) ==
    IF raised \/ key \in DOMAIN first THEN first ELSE DictSet(first, key, result)

DescribeFrame == UNCHANGED <<pullVars, pushVars, auditLog, cycle, request, token_cache, clock,
                             callers, parked, notes_db, meta>>

\* one call of SalesforceClient.describe
Describe ==
    \E sobject \in SObjects, answer \in DescribeAnswers :
        LET r == describe(describe_cache.by_name, sobject, answer)
            key == Lower(sobject)
        IN  /\ ~r.contacted => answer = "v1"
            /\ describe_cache' = [describe_cache EXCEPT
                   !.by_name = r.cache,
                   !.first = RecordFirst(describe_cache.first, key, r.raised, r.result)]
            /\ lastOp' = [op |-> "describe", ok |-> ~r.raised,
                          out |-> [key |-> key, contacted |-> r.contacted,
                                   result |-> r.result.fields]]
            /\ DescribeFrame

\* one call of _get_account_fields
GetAccountFields ==
    \E answer \in DescribeAnswers :
        LET r == get_account_fields(describe_cache.account_fields, answer)
            key == "_get_account_fields"
        IN  /\ ~r.contacted => answer = "v1"
            /\ describe_cache' = [describe_cache EXCEPT
                   !.account_fields = r.cache,
                   !.first = RecordFirst(describe_cache.first, key, r.raised,
                                         [keys |-> {}, fields |-> r.result])]
            /\ lastOp' = [op |-> "_get_account_fields", ok |-> ~r.raised,
                          out |-> [key |-> key, contacted |-> r.contacted,
                                   result |-> r.result]]
            /\ DescribeFrame

(***************************************************************************)
(* The payload of create_person_account (salesforce/sf_client.py).  Of the  *)
(* entries of base, the model keeps RecordTypeId, LastName (the one with a  *)
(* default), FirstName and UUID__c; the other entries are person.get(...)   *)
(* values treated as FirstName is.                                          *)
(***************************************************************************)
PersonKeys == {"lastName", "firstName", "uuid"}

PersonValues == {NULL, "", " ", "Al"}

SSN_STATUS_FIELD == "Social_Security_Number_Status__pc"

\* the Account field names an org may or may not expose
AccountFieldNames == {"RecordTypeId", "LastName", "FirstName", "UUID__c", SSN_STATUS_FIELD}

\* x or default
OrDefault(x, default) == IF Truthy(x) THEN x ELSE default

\* base: Dict[str, Any] = {...}
PersonBase(person, rt_id) ==
    [RecordTypeId |-> rt_id,
     LastName     |-> OrDefault(person["lastName"], "Unknown"),
     FirstName    |-> person["firstName"],
     UUID__c      |-> person["uuid"]]

\* v is None or (isinstance(v, str) and v.strip() == "")
IsNullOrBlank(v) == v = NULL \/ Strip(v) = ""

\* a filter that sends every field of base
AnyField(k, fields) == TRUE

\* if k in fields
InFields(k, fields) == k \in fields

\* the loop over base.items(), then the SSN status field
person_account_payload(person, fields, rt_id) ==
    LET base == PersonBase(person, rt_id)
        kept == {k \in DOMAIN base : ~IsNullOrBlank(base[k]) /\ InFields(k, fields)}
        status == IF SSN_STATUS_FIELD \in fields THEN {SSN_STATUS_FIELD} ELSE {}
    IN  [k \in kept \cup status |-> IF k = SSN_STATUS_FIELD THEN "Partial" ELSE base[k]]

\* create_person_account(person) on the person, described field set and
\* record type of the request; remote is the outcome of the POST
CreatePersonAccount ==
    \E remote \in {"ok", "fail"} :
        LET payload == person_account_payload(request.person, request.fields, request.rt_id)
            r == create_person_account(sfAccounts, request.fields, request.person["uuid"], remote)
        IN  /\ request.kind = "person"
            /\ lastOp.op = "startup"
            /\ sfAccounts' = r.sf
            /\ lastOp' = [op |-> "create_person_account", ok |-> ~r.raised,
                          out |-> [payload |-> payload, id |-> r.id]]
            /\ UNCHANGED <<programs, participants, program_enrollments, sfPrograms,
                           sfEnrollments, uuidCounter, writeMissing, pushVars, auditLog,
                           processVars>>

(***************************************************************************)
(* _sf(path, method, json): one remote call (salesforce/sf_client.py).  An  *)
(* answer of the remote side is a response with its status and body, or no  *)
(* response within the 30 s of timeout=30.0, for which httpx raises its     *)
(* TimeoutException.                                                        *)
(***************************************************************************)
Response(status, body) == [kind |-> "response", status |-> status, body |-> body]

Timeout == [kind |-> "timeout", status |-> 0, body |-> ""]

\* no request was sent
NotSent == [kind |-> "none", status |-> 0, body |-> ""]

TokenAnswers == {Response(st, "auth") : st \in {200, 400, 401, 500}} \cup {Timeout}

CallAnswers == {Response(st, b) : st \in {200, 204, 399, 400, 404, 500, 503},
                                  b \in {"", "body"}} \cup {Timeout}

\* a test that takes only the 5xx statuses for failures
IsServerError(status) == status >= 500

\* if resp.status_code >= 400
IsErrorStatus(status) == status >= 400

\* what _get_token does with the answer of the token endpoint
AuthOf(answer) ==
    IF answer.kind = "response" /\ answer.status = 200 THEN "ok" ELSE "fail"

\* _sf: error is the exception the call raises ("none": it returns result),
\* carried the status and body in the exception's message, token_requests
\* and requests the number of requests sent to the token endpoint and to path
sf(cache, now, token_answer, answer) ==
    LET t == get_token(cache, now, AuthOf(token_answer))
        failed(error, tries, sent, carried) ==
            [cache |-> t.cache, error |-> error, carried |-> carried, result |-> NULL,
             token_requests |-> tries, requests |-> sent]
    IN  IF t.contacted /\ token_answer.kind = "timeout"
        THEN failed("TimeoutException", 1, 0, <<>>)
        ELSE IF t.raised
        THEN failed("SFAuthError", 1, 0, <<token_answer.status, token_answer.body>>)
        ELSE LET tries == IF t.contacted THEN 1 ELSE 0
             IN  IF answer.kind = "timeout"
                 THEN failed("TimeoutException", tries, 1, <<>>)
                 ELSE IF IsErrorStatus(answer.status)
                 THEN failed("SFError", tries, 1, <<answer.status, answer.body>>)
                 ELSE [cache |-> t.cache, error |-> "none", carried |-> <<>>,
                       result |-> IF answer.body = "" THEN "{}" ELSE answer.body,
                       token_requests |-> tries, requests |-> 1]

\* one call of _sf; the answers are what the remote side would answer to a
\* request, should one be sent
SfCall ==
    \E token_answer \in TokenAnswers, answer \in CallAnswers :
        LET r == sf(token_cache, clock, token_answer, answer)
        IN  /\ r.token_requests = 0 => token_answer = Response(200, "auth")
            /\ r.requests = 0 => answer = Response(200, "")
            /\ token_cache' = r.cache
            /\ lastOp' = [op |-> "_sf", ok |-> r.error = "none",
                          out |-> [error |-> r.error, carried |-> r.carried,
                                   result |-> r.result,
                                   token_requests |-> r.token_requests,
                                   requests |-> r.requests,
                                   token_answer |-> IF r.token_requests = 0 THEN NotSent
                                                    ELSE token_answer,
                                   answer |-> IF r.requests = 0 THEN NotSent ELSE answer]]
            /\ UNCHANGED <<pullVars, pushVars, auditLog, cycle, request, clock, threadVars>>

(***************************************************************************)
(* SyncRunner.run_full_sync, one statement at a time.  cycle.pc is the      *)
(* statement about to run, cycle.trace the statements that have run (a     *)
(* failed one included), cycle.open whether the DuckClient of this runner  *)
(* is open, cycle.raised how many exceptions the call has raised to its    *)
(* caller.                                                                 *)
(***************************************************************************)
IdleCycle ==
    [pc |-> "idle", programs |-> <<>>, enrollments |-> <<>>, accounts |-> <<>>,
     prog_uuid_by_id |-> EmptyDict, acct_uuid_by_id |-> EmptyDict,
     trace |-> <<>>, error |-> NULL, raised |-> 0, open |-> FALSE]

\* what a remote query does: it answers, the token request is refused
\* (SFAuthError), the query is refused (SFError), or the transport raises
FetchOutcomes == {"ok", "auth_fail", "query_fail", "timeout"}

ErrorOf(outcome) ==
    CASE outcome = "auth_fail" -> "SFAuthError"
      [] outcome = "query_fail" -> "SFError"
      [] OTHER -> "Exception"

\* prog_ids and acct_ids as run_full_sync computes them
prog_ids_of(rows) == {id \in IdsOf(rows) : id # NULL}

acct_ids_of(rows) == {rows[i].AccountId : i \in 1..Len(rows)} \ {NULL}

\* a run_full_sync that upserts enrollments before participants
StepAfterEnrollmentsFirst(step, c) ==
    CASE step = "fetch_programs" -> "fetch_enrollments"
      [] step = "fetch_enrollments" -> "fetch_accounts"
      [] step = "fetch_accounts" -> "upsert_programs"
      [] step = "upsert_programs" -> "upsert_enrollments"
      [] step = "upsert_enrollments" -> "upsert_participants"
      [] OTHER -> "done"

\* a run_full_sync that upserts the programs as soon as they are fetched
StepAfterEagerUpsert(step, c) ==
    CASE step = "fetch_programs" -> "upsert_programs"
      [] step = "upsert_programs" ->
            IF prog_ids_of(c.programs) # {} THEN "fetch_enrollments" ELSE "upsert_participants"
      [] step = "fetch_enrollments" ->
            IF acct_ids_of(c.enrollments) # {} THEN "fetch_accounts" ELSE "upsert_participants"
      [] step = "fetch_accounts" -> "upsert_participants"
      [] step = "upsert_participants" -> "upsert_enrollments"
      [] OTHER -> "done"

\* the statement that follows step in the try block of run_full_sync
StepAfter(step, c) ==
    CASE step = "fetch_programs" ->
            IF prog_ids_of(c.programs) # {} THEN "fetch_enrollments" ELSE "upsert_programs"
      [] step = "fetch_enrollments" ->
            IF acct_ids_of(c.enrollments) # {} THEN "fetch_accounts" ELSE "upsert_programs"
      [] step = "fetch_accounts" -> "upsert_programs"
      [] step = "upsert_programs" -> "upsert_participants"
      [] step = "upsert_participants" -> "upsert_enrollments"
      [] OTHER -> "done"

\* c after its statement step has run without raising
Advance(c, step) ==
    LET next == StepAfter(step, c)
    IN  [c EXCEPT !.pc = next, !.open = (next # "done")]

\* an except clause without the finally block
fail_cycle_unclosed(c, error) ==
    [c EXCEPT !.pc = "failed", !.error = error, !.raised = @ + 1]

\* the except clauses and the finally block: log, re-raise, self.db.close()
fail_cycle(c, error) ==
    [c EXCEPT !.pc = "failed", !.error = error, !.raised = @ + 1, !.open = FALSE]

RunFailed == [op |-> "run_full_sync", ok |-> FALSE, out |-> "error"]

\* ids of the fetched rows whose write-back may be attempted
BlankIds(rows) ==
    IF writeMissing THEN {rows[i].Id : i \in {j \in 1..Len(rows) : ~Truthy(rows[j].UUID__c)}}
    ELSE {}

\* runner = SyncRunner(); programs = fetch_programs()
CycleFetchPrograms ==
    \E outcome \in FetchOutcomes :
        LET c == [IdleCycle EXCEPT !.open = TRUE, !.trace = <<"fetch_programs">>,
                                   !.programs = IF outcome = "ok" THEN fetch_programs(sfPrograms)
                                                ELSE <<>>]
        IN  /\ cycle.pc \in {"idle", "done", "failed"}
            /\ IF outcome = "ok"
               THEN cycle' = Advance(c, "fetch_programs") /\ UNCHANGED lastOp
               ELSE cycle' = fail_cycle(c, ErrorOf(outcome)) /\ lastOp' = RunFailed
            /\ UNCHANGED <<pullVars, pushVars, auditLog, request, token_cache, clock,
                           threadVars>>

\* enrollments = fetch_enrollments_for_programs(prog_ids)
CycleFetchEnrollments ==
    \E outcome \in FetchOutcomes :
        LET c == [cycle EXCEPT !.trace = Append(@, "fetch_enrollments"),
                               !.enrollments =
                                   IF outcome = "ok"
                                   THEN fetch_enrollments_for_programs(
                                            sfEnrollments, prog_ids_of(cycle.programs))
                                   ELSE <<>>]
        IN  /\ cycle.pc = "fetch_enrollments"
            /\ IF outcome = "ok"
               THEN cycle' = Advance(c, "fetch_enrollments") /\ UNCHANGED lastOp
               ELSE cycle' = fail_cycle(c, ErrorOf(outcome)) /\ lastOp' = RunFailed
            /\ UNCHANGED <<pullVars, pushVars, auditLog, request, token_cache, clock,
                           threadVars>>

\* accounts = fetch_accounts(acct_ids); "fallback" is an INVALID_FIELD error
\* answered by the fallback query, "fallback_fail" one whose fallback query fails
CycleFetchAccounts ==
    \E outcome \in FetchOutcomes \cup {"fallback", "fallback_fail"} :
        LET answered == outcome \in {"ok", "fallback"}
            c == [cycle EXCEPT !.trace = Append(@, "fetch_accounts"),
                               !.accounts =
                                   IF answered
                                   THEN fetch_accounts(sfAccounts,
                                                       acct_ids_of(cycle.enrollments),
                                                       outcome = "fallback")
                                   ELSE <<>>]
        IN  /\ cycle.pc = "fetch_accounts"
            /\ IF answered
               THEN cycle' = Advance(c, "fetch_accounts") /\ UNCHANGED lastOp
               ELSE cycle' = fail_cycle(c, IF outcome = "fallback_fail" THEN "SFError"
                                           ELSE ErrorOf(outcome))
                    /\ lastOp' = RunFailed
            /\ UNCHANGED <<pullVars, pushVars, auditLog, request, token_cache, clock,
                           threadVars>>

\* prog_uuid_by_id = upsert_programs(self.db, programs).  The store raises
\* after k rows (k < len(programs)), or every row is written
CycleUpsertPrograms ==
    \E wbFail \in SUBSET BlankIds(cycle.programs), k \in 0..Len(cycle.programs) :
        LET s == upsert_programs(programs, sfPrograms, uuidCounter,
                                 SubSeq(cycle.programs, 1, k), wbFail)
            c == [cycle EXCEPT !.trace = Append(@, "upsert_programs"),
                               !.prog_uuid_by_id = s.map]
        IN  /\ cycle.pc = "upsert_programs"
            /\ s.ctr <= MaxUuid
            /\ programs' = s.db /\ sfPrograms' = s.sf /\ uuidCounter' = s.ctr
            /\ IF k = Len(cycle.programs)
               THEN cycle' = Advance(c, "upsert_programs") /\ UNCHANGED lastOp
               ELSE cycle' = fail_cycle(c, "Exception") /\ lastOp' = RunFailed
            /\ UNCHANGED <<participants, program_enrollments, sfAccounts, sfEnrollments,
                           writeMissing, pushVars, auditLog, request, token_cache, clock,
                           threadVars>>

\* acct_uuid_by_id = upsert_participants(self.db, accounts)
CycleUpsertParticipants ==
    \E wbFail \in SUBSET BlankIds(cycle.accounts), k \in 0..Len(cycle.accounts) :
        LET s == upsert_participants(participants, sfAccounts, uuidCounter,
                                     SubSeq(cycle.accounts, 1, k), wbFail)
            c == [cycle EXCEPT !.trace = Append(@, "upsert_participants"),
                               !.acct_uuid_by_id = s.map]
        IN  /\ cycle.pc = "upsert_participants"
            /\ s.ctr <= MaxUuid
            /\ participants' = s.db /\ sfAccounts' = s.sf /\ uuidCounter' = s.ctr
            /\ IF k = Len(cycle.accounts)
               THEN cycle' = Advance(c, "upsert_participants") /\ UNCHANGED lastOp
               ELSE cycle' = fail_cycle(c, "Exception") /\ lastOp' = RunFailed
            /\ UNCHANGED <<programs, program_enrollments, sfPrograms, sfEnrollments,
                           writeMissing, pushVars, auditLog, request, token_cache, clock,
                           threadVars>>

\* enr_uuid_by_id = upsert_enrollments(...); counts; return counts; finally
CycleUpsertEnrollments ==
    \E wbFail \in SUBSET BlankIds(cycle.enrollments), k \in 0..Len(cycle.enrollments) :
        LET s == upsert_enrollments(program_enrollments, sfEnrollments, uuidCounter,
                                    SubSeq(cycle.enrollments, 1, k),
                                    cycle.prog_uuid_by_id, cycle.acct_uuid_by_id, wbFail)
            c == [cycle EXCEPT !.trace = Append(@, "upsert_enrollments")]
        IN  /\ cycle.pc = "upsert_enrollments"
            /\ s.ctr <= MaxUuid
            /\ program_enrollments' = s.db /\ sfEnrollments' = s.sf /\ uuidCounter' = s.ctr
            /\ IF k = Len(cycle.enrollments)
               THEN /\ cycle' = Advance(c, "upsert_enrollments")
                    /\ lastOp' = [op |-> "run_full_sync", ok |-> TRUE,
                                  out |-> [programs     |-> CountRows(programs),
                                           participants |-> CountRows(participants),
                                           enrollments  |-> CountRows(s.db)]]
               ELSE cycle' = fail_cycle(c, "Exception") /\ lastOp' = RunFailed
            /\ UNCHANGED <<programs, participants, sfPrograms, sfAccounts,
                           writeMissing, pushVars, auditLog, request, token_cache, clock,
                           threadVars>>

(***************************************************************************)
(* Note upload (api/sync.py) over the SQLAlchemy session of models/db.py    *)
(* (autoflush=False).  notes_db.serverVersion is the value column of the    *)
(* Meta row 'serverVersion' (a string; NULL: no such row), notes_db.notes   *)
(* the stored notes.  In a session without autoflush an object added with   *)
(* db.add is not found by db.get before the commit, and the commit of two   *)
(* added objects with one primary key fails on the UNIQUE constraint.       *)
(***************************************************************************)
MaxVersion == 4       \* uploads are taken while the stored version is below this
MaxMutations == 2     \* mutations in one upload request

Mutations ==
    {[table |-> "notes", op |-> o, id |-> "n1"] : o \in {"insert", "update", "delete", "merge"}}
        \cup {[table |-> "notes", op |-> "insert", id |-> "n2"],
              [table |-> "other", op |-> "insert", id |-> "n1"]}

\* int(rec.value)
IntOf(text) == CHOOSE n \in 0..(MaxVersion + MaxMutations + 1) : ToString(n) = text

\* a counter that hands out the version it read
SameVersion(v) == v

\* v += 1
NextVersion(v) == v + 1

\* the mutations of request that upload gives a version to
IsVersioned(m) == m.table = "notes" /\ m.op \in {"insert", "update", "delete"}

\* the session during the loop of upload: value is the in-memory value of
\* the Meta row if the row is stored, new_meta the number of Meta objects
\* added, notes the stored notes as modified in memory, new_notes the ids of
\* the Note objects added (one entry per object), last the last version
\* handed out (0: serverVersion is None)
OpenSession(db) ==
    [stored |-> db.serverVersion # NULL,
     value |-> IF db.serverVersion # NULL THEN IntOf(db.serverVersion) ELSE 0,
     new_meta |-> 0, notes |-> db.notes, deleted |-> {}, new_notes |-> <<>>,
     new_versions |-> <<>>, last |-> 0, accepted |-> 0]

\* get_next_version(db) in session ss
get_next_version(ss) ==
    IF ss.stored
    THEN [ss EXCEPT !.value = NextVersion(ss.value), !.last = NextVersion(ss.value)]
    ELSE [ss EXCEPT !.new_meta = @ + 1, !.last = NextVersion(0)]

\* the body of the loop of upload for mutation m
apply_mutation(ss, m) ==
    LET held == \E n \in ss.notes : n.id = m.id
        v    == get_next_version(ss)
    IN  IF m.table # "notes" THEN ss
        ELSE IF m.op \in {"insert", "update"}
        THEN IF held
             THEN [v EXCEPT !.notes = {n \in ss.notes : n.id # m.id}
                                         \cup {[id |-> m.id, version |-> v.last]},
                            !.deleted = @ \ {m.id},
                            !.accepted = @ + 1]
             ELSE [v EXCEPT !.new_notes = Append(@, m.id),
                            !.new_versions = Append(@, v.last),
                            !.accepted = @ + 1]
        ELSE IF m.op = "delete"
        THEN [v EXCEPT !.deleted = IF held THEN @ \cup {m.id} ELSE @, !.accepted = @ + 1]
        ELSE [ss EXCEPT !.accepted = @ + 1]

RECURSIVE apply_mutations(_, _, _)
apply_mutations(ss, mutations, i) ==
    IF i > Len(mutations) THEN ss
    ELSE apply_mutations(apply_mutation(ss, mutations[i]), mutations, i + 1)

\* db.commit() raises when two added objects share a primary key
CommitFails(ss) ==
    \/ ss.new_meta > 1
    \/ \E i, j \in 1..Len(ss.new_notes) : i # j /\ ss.new_notes[i] = ss.new_notes[j]

\* what db.commit() stores
Committed(ss) ==
    [serverVersion |-> IF ss.stored THEN ToString(ss.value)
                       ELSE IF ss.new_meta = 1 THEN ToString(ss.last) ELSE NULL,
     notes |-> {n \in ss.notes : n.id \notin ss.deleted}
                  \cup {[id |-> ss.new_notes[i], version |-> ss.new_versions[i]] :
                           i \in 1..Len(ss.new_notes)}]

\* the serverVersion of the answer: the last one handed out, or the stored
\* one (0 without a row) when the request had no versioned mutation
AnswerVersion(ss, db) ==
    IF ss.last # 0 THEN ss.last
    ELSE IF db.serverVersion # NULL THEN IntOf(db.serverVersion) ELSE 0

\* upload(mutations)
upload(db, mutations) ==
    LET ss == apply_mutations(OpenSession(db), mutations, 1)
    IN  IF CommitFails(ss)
        THEN [db |-> db, raised |-> TRUE, accepted |-> 0, serverVersion |-> 0]
        ELSE [db |-> Committed(ss), raised |-> FALSE, accepted |-> ss.accepted,
              serverVersion |-> AnswerVersion(ss, Committed(ss))]

\* POST /sync/upload
Upload ==
    \E n \in 0..MaxMutations :
        \E mutations \in [1..n -> Mutations] :
            LET r == upload(notes_db, mutations)
            IN  /\ notes_db.serverVersion # NULL => IntOf(notes_db.serverVersion) < MaxVersion
                /\ notes_db' = r.db
                /\ lastOp' = [op |-> "upload", ok |-> ~r.raised,
                              out |-> [mutations |-> mutations, accepted |-> r.accepted,
                                       serverVersion |-> r.serverVersion]]
                /\ UNCHANGED <<pullVars, pushVars, auditLog, cycle, request, token_cache,
                               clock, callers, describe_cache, parked, meta>>

(***************************************************************************)
(* Concurrent uploads.  upload is a plain def: each request runs on a pool *)
(* thread with a Session of its own (get_db).  The loop of a request reads *)
(* the stored rows (db.get) and changes objects in memory only; db.commit() *)
(* flushes them: an UPDATE of the rows the session changed, an INSERT of    *)
(* the objects it added, a DELETE of the ones it deleted.  The SQLite       *)
(* driver opens no transaction for the SELECTs, so nothing a request has   *)
(* read is locked until its commit.  callers.th[t] is the request thread t *)
(* serves: ss its session after the loop, base the notes it read;          *)
(* callers.assigned lists the versions the committed requests handed out.  *)
(***************************************************************************)
MaxUploads == 3       \* upload requests the model lets arrive

VersionedMutations == {m \in Mutations : IsVersioned(m)}

IdleUpload == [pc |-> "idle", ss |-> OpenSession(EmptyNotesDb), base |-> {}]

NoUploads == [issued |-> 0, assigned |-> <<>>, th |-> [t \in Submitters |-> IdleUpload]]

\* the notes a session changed in memory and has not deleted
Dirty(ss, base) == {n \in ss.notes : n \notin base /\ n.id \notin ss.deleted}

\* the versions get_next_version returned in a session whose mutations are
\* all versioned, in the order of the calls
HandedOut(ss) == [i \in 1..ss.accepted |-> ss.last - ss.accepted + i]

\* the flush of db.commit() raises: two added objects share a primary key,
\* an added object's key is stored by now (IntegrityError), or a changed row
\* is no longer there (StaleDataError)
FlushFails(db, ss, base) ==
    \/ CommitFails(ss)
    \/ ss.new_meta = 1 /\ db.serverVersion # NULL
    \/ \E i \in 1..Len(ss.new_notes) : \E n \in db.notes : n.id = ss.new_notes[i]
    \/ \E n \in Dirty(ss, base) : \A x \in db.notes : x.id # n.id

\* what db.commit() leaves in the store when it finds db there
Flushed(db, ss, base) ==
    [serverVersion |-> IF ss.stored /\ ss.last # 0 THEN ToString(ss.value)
                       ELSE IF ss.new_meta = 1 THEN ToString(ss.last)
                       ELSE db.serverVersion,
     notes |-> {n \in db.notes : /\ n.id \notin ss.deleted
                                  /\ \A d \in Dirty(ss, base) : d.id # n.id}
                  \cup Dirty(ss, base)
                  \cup {[id |-> ss.new_notes[i], version |-> ss.new_versions[i]] :
                           i \in 1..Len(ss.new_notes)}]

UploadFrame ==
    UNCHANGED <<pullVars, pushVars, auditLog, cycle, request, token_cache, clock,
                describe_cache, parked, meta>>

\* a request arrives at thread t and runs the loop of upload
UploadLoop ==
    \E t \in Submitters, n \in 1..MaxMutations :
        \E mutations \in [1..n -> VersionedMutations] :
            /\ callers.th[t].pc \in {"idle", "answered"}
            /\ callers.issued < MaxUploads
            /\ notes_db.serverVersion # NULL => IntOf(notes_db.serverVersion) < MaxVersion
            /\ callers' = [callers EXCEPT
                              !.issued = @ + 1,
                              !.th[t] = [pc |-> "commit",
                                         ss |-> apply_mutations(OpenSession(notes_db),
                                                                mutations, 1),
                                         base |-> notes_db.notes]]
            /\ UNCHANGED <<notes_db, lastOp>>
            /\ UploadFrame

\* db.commit() of the request thread t serves, and its answer
UploadCommit ==
    \E t \in Submitters :
        LET c == callers.th[t]
            raised == FlushFails(notes_db, c.ss, c.base)
        IN  /\ c.pc = "commit"
            /\ notes_db' = IF raised THEN notes_db ELSE Flushed(notes_db, c.ss, c.base)
            /\ callers' = [callers EXCEPT
                              !.assigned = IF raised THEN @ ELSE @ \o HandedOut(c.ss),
                              !.th[t] = [IdleUpload EXCEPT !.pc = "answered"]]
            /\ lastOp' = [op |-> "upload", ok |-> ~raised,
                          out |-> [accepted |-> IF raised THEN 0 ELSE c.ss.accepted,
                                   serverVersion |-> IF raised THEN 0 ELSE c.ss.last]]
            /\ UploadFrame

(***************************************************************************)
(* GET /sync/pull, one statement at a time, for one client.  request is    *)
(* the client and its pull in flight: since is the serverVersion of the    *)
(* last answer (0 before the first), received the notes the answers have   *)
(* held, rows the notes the query of the pull in flight returned.  The two *)
(* reads of pull are separate SELECTs on a Session of its own; the driver  *)
(* opens no transaction for them, so an upload may commit between them.    *)
(***************************************************************************)
\* rows = db.query(Note).filter(Note.version > since).all()
notes_since(db, since) == {n \in db.notes : n.version > since}

\* a query that also returns the notes at version since
notes_from(db, since) == {n \in db.notes : n.version >= since}

\* int(current.value) if current else 0
server_version(db) == IF db.serverVersion = NULL THEN 0 ELSE IntOf(db.serverVersion)

PullFrame ==
    UNCHANGED <<pullVars, pushVars, auditLog, cycle, token_cache, clock, callers,
                describe_cache, parked, notes_db, meta>>

\* the client sends pull(since) and the handler runs its query
PullQuery ==
    /\ request.kind = "pull" /\ request.pc = "idle"
    /\ request' = [request EXCEPT !.pc = "meta",
                                  !.rows = notes_since(notes_db, request.since)]
    /\ UNCHANGED lastOp
    /\ PullFrame

\* current = db.get(Meta, 'serverVersion'); return; the client keeps the
\* notes and takes the returned serverVersion as its next since
PullAnswer ==
    /\ request.kind = "pull" /\ request.pc = "meta"
    /\ lastOp' = [op |-> "pull", ok |-> TRUE,
                  out |-> [since |-> request.since, notes |-> request.rows,
                           serverVersion |-> server_version(notes_db)]]
    /\ request' = [request EXCEPT !.pc = "idle", !.rows = {},
                                  !.since = server_version(notes_db),
                                  !.received = @ \cup request.rows]
    /\ PullFrame

(***************************************************************************)
(* SyncRunner.get_sync_status (sync_runner.py).  meta is the Local Cache    *)
(* table meta (schema.py); no statement of the server writes it, nor the    *)
(* Local Cache table notes that get_sync_status counts.                     *)
(***************************************************************************)
\* SELECT value FROM meta WHERE key = 'last_sync_time' LIMIT 1
last_sync_time(meta_table) == DictGet(meta_table, "last_sync_time")

\* get_sync_status(): store is "ok", or "error" when a query raises
get_sync_status(store) ==
    IF store = "ok"
    THEN [status |-> "healthy",
          counts |-> [programs |-> CountRows(programs),
                      participants |-> CountRows(participants),
                      enrollments |-> CountRows(program_enrollments),
                      notes |-> 0],
          last_sync_time |-> last_sync_time(meta)]
    ELSE [status |-> "error",
          counts |-> [programs |-> 0, participants |-> 0, enrollments |-> 0, notes |-> 0],
          last_sync_time |-> NULL]

\* GET /sync/status
GetSyncStatus ==
    \E store \in {"ok", "error"} :
        /\ lastOp' = [op |-> "get_sync_status", ok |-> store = "ok",
                      out |-> get_sync_status(store)]
        /\ UNCHANGED <<pullVars, pushVars, auditLog, processVars>>

(***************************************************************************)
(* Two run_full_sync calls in flight: the scheduler's thread (run_nightly)  *)
(* and a request to the full-sync endpoint.  Nothing serialises them.  One  *)
(* call runs as cycle while the other waits as parked; a thread switch      *)
(* between two statements of run_full_sync exchanges them.                  *)
(***************************************************************************)
SwitchRunner ==
    /\ cycle # parked
    /\ cycle' = parked
    /\ parked' = cycle
    /\ UNCHANGED <<pullVars, pushVars, auditLog, lastOp, request, token_cache, clock,
                   callers, describe_cache, notes_db, meta>>

(***************************************************************************)
(* Initial states: a fresh deployment (empty store file, seeded at the      *)
(* first process start) facing the remote records above, each fetched      *)
(* record carrying its reconciliation key, none, or a blank string.        *)
(***************************************************************************)
UuidChoices(id) ==
    CASE id = "A1" -> {NULL, "  ", GivenUuid(id)}
      [] id = "P1" -> {NULL, GivenUuid(id)}
      [] OTHER -> {GivenUuid(id)}

RemoteRecords(uP1, uA1, uE1) ==
    /\ sfPrograms = [id \in Range(ProgramOrder) |->
            [Id |-> id, Name |-> ProgramName(id),
             UUID__c |-> IF id = "P1" THEN uP1 ELSE GivenUuid(id)]]
    /\ sfAccounts = [id \in Range(AccountOrder) |->
            [Id |-> id, IsPersonAccount |-> (id = "A1"),
             UUID__c |-> IF id = "A1" THEN uA1 ELSE GivenUuid(id)]]
    /\ sfEnrollments = [id \in Range(EnrollmentOrder) |->
            [Id |-> id, ProgramId |-> InitialEnrollment(id).ProgramId,
             AccountId |-> InitialEnrollment(id).AccountId,
             Active |-> InitialEnrollment(id).Active,
             UUID__c |-> IF id = "E1" THEN uE1 ELSE GivenUuid(id)]]

InitRemote ==
    \E uP1 \in UuidChoices("P1"), uA1 \in UuidChoices("A1"), uE1 \in UuidChoices("E1") :
        RemoteRecords(uP1, uA1, uE1)

\* no call in flight, no token cached
InitThreads ==
    /\ callers = NoCallers
    /\ describe_cache = NoDescribes
    /\ parked = IdleCycle
    /\ notes_db = EmptyNotesDb
    /\ meta = EmptyDict

InitProcess ==
    /\ cycle = IdleCycle
    /\ token_cache = <<>>
    /\ clock = 0
    /\ InitThreads

InitLocal ==
    /\ programs = init_schema_and_seed({})
    /\ participants = {}
    /\ program_enrollments = {}
    /\ uuidCounter = 0
    /\ outreach_encounters = {}
    /\ new_client_intakes = {}
    /\ sfIngested = <<>>
    /\ auditLog = <<>>
    /\ pushHist = [acked |-> {}, created |-> EmptyDict, lost |-> {}]
    /\ lastOp = [op |-> "startup", ok |-> TRUE, out |-> "ok"]
    /\ InitProcess

InitPull ==
    /\ InitRemote /\ InitLocal
    /\ request = NULL
    /\ writeMissing \in BOOLEAN
    /\ sfAccountFields = {"LastName", "FirstName", "UUID__c"}

NextPull == RunFullSync \/ Startup \/ QuickPersonAccount

SpecPull == InitPull /\ [][NextPull]_vars

\* the stores of InitPush; the request is left to the specification
InitStores ==
    /\ RemoteRecords(GivenUuid("P1"), GivenUuid("A1"), GivenUuid("E1")) /\ InitLocal
    /\ writeMissing = FALSE
    /\ sfAccountFields = {"LastName", "FirstName", "UUID__c"}

InitPush ==
    /\ RemoteRecords(GivenUuid("P1"), GivenUuid("A1"), GivenUuid("E1")) /\ InitLocal
    /\ request = NULL
    /\ writeMissing = FALSE
    /\ sfAccountFields = {"LastName", "FirstName", "UUID__c"}

NextPush == SyncPersonAccount(ClientIds, {"ok"}) \/ QuickPersonAccount

SpecPush == InitPush /\ [][NextPush]_vars

NextOutbox ==
    \/ SubmitOutreachEncounter
    \/ CreateNewClientIntake
    \/ SyncNotesToSf
    \/ QuickPersonAccount
    \/ RunFullSync

SpecOutbox == InitPush /\ [][NextOutbox]_vars

\* the stores after a create_quick_person_account whose remote create was
\* carried out but not answered (the local row has no sfid, the remote
\* account A2 carries its uuid), and after the remote side has enrolled that
\* account (E2)
InitFrame ==
    /\ sfPrograms = [id \in Range(ProgramOrder) |->
            [Id |-> id, Name |-> ProgramName(id), UUID__c |-> GivenUuid(id)]]
    /\ sfAccounts = [id \in Range(AccountOrder) |->
            [Id |-> id, IsPersonAccount |-> TRUE,
             UUID__c |-> IF id = "A2" THEN uuid4(1) ELSE GivenUuid(id)]]
    /\ sfEnrollments = [id \in Range(EnrollmentOrder) |->
            [Id |-> id, ProgramId |-> InitialEnrollment(id).ProgramId,
             AccountId |-> InitialEnrollment(id).AccountId,
             Active |-> InitialEnrollment(id).Active, UUID__c |-> GivenUuid(id)]]
    /\ programs = init_schema_and_seed({})
    /\ participants = {[uuid |-> uuid4(1), sfid |-> NULL]}
    /\ program_enrollments = {}
    /\ uuidCounter = 1
    /\ outreach_encounters = {}
    /\ new_client_intakes = {}
    /\ sfIngested = <<>>
    /\ auditLog = <<>>
    /\ pushHist = [acked |-> {}, created |-> DictSet(EmptyDict, uuid4(1), "A2"),
                   lost |-> {uuid4(1)}]
    /\ lastOp = [op |-> "create_quick_person_account", ok |-> TRUE,
                 out |-> [status |-> 200, localId |-> uuid4(1), salesforceId |-> NULL,
                          synced |-> FALSE, pushed |-> FALSE]]
    /\ InitProcess
    /\ request = NULL
    /\ writeMissing = FALSE
    /\ sfAccountFields = {"LastName", "FirstName", "UUID__c"}

SpecFrame == InitFrame /\ [][NextOutbox]_vars

NextUpsert == UpsertEnrollments

\* upsert_enrollments runs after upsert_programs and upsert_participants have
\* stored the rows their mappings name
InitUpsert ==
    /\ RemoteRecords(GivenUuid("P1"), GivenUuid("A1"), GivenUuid("E1"))
    /\ programs = init_schema_and_seed({})
            \cup {ProgramRow(GivenUuid(id), [Id |-> id, Name |-> ProgramName(id)]) :
                     id \in {"P1", "P3"}}
    /\ participants = {ParticipantRow(GivenUuid(id), [Id |-> id]) : id \in {"A1", "A2"}}
    /\ program_enrollments = {}
    /\ uuidCounter = 0
    /\ outreach_encounters = {}
    /\ new_client_intakes = {}
    /\ sfIngested = <<>>
    /\ auditLog = <<>>
    /\ pushHist = [acked |-> {}, created |-> EmptyDict, lost |-> {}]
    /\ lastOp = [op |-> "startup", ok |-> TRUE, out |-> "ok"]
    /\ InitProcess
    /\ request = NULL
    /\ writeMissing = FALSE
    /\ sfAccountFields = {"LastName", "FirstName", "UUID__c"}

SpecUpsert == InitUpsert /\ [][NextUpsert]_vars

NextAudit == SyncPersonAccount({"c1"}, AuditOutcomes) \/ Middleware

SpecAudit == InitPush /\ [][NextAudit]_vars

NextCycle ==
    \/ CycleFetchPrograms
    \/ CycleFetchEnrollments
    \/ CycleFetchAccounts
    \/ CycleUpsertPrograms
    \/ CycleUpsertParticipants
    \/ CycleUpsertEnrollments

SpecCycle == InitPull /\ [][NextCycle]_vars

\* cycles with write-back enabled over remote records of which a program, a
\* person account and an enrollment may lack the reconciliation key
InitWriteBack ==
    /\ \E uP1 \in {NULL, GivenUuid("P1")}, uA1 \in {NULL, "  ", GivenUuid("A1")},
          uE1 \in {NULL, "", GivenUuid("E1")} : RemoteRecords(uP1, uA1, uE1)
    /\ InitLocal
    /\ request = NULL
    /\ writeMissing = TRUE
    /\ sfAccountFields = {"LastName", "FirstName", "UUID__c"}

SpecWriteBack == InitWriteBack /\ [][NextCycle]_vars

\* cycles over a remote side that holds any subset of the programs and of the
\* accounts the enrollments refer to
InitScope ==
    /\ \E ps \in SUBSET Range(ProgramOrder), as \in SUBSET Range(AccountOrder) :
          /\ sfPrograms = [id \in ps |->
                  [Id |-> id, Name |-> ProgramName(id), UUID__c |-> GivenUuid(id)]]
          /\ sfAccounts = [id \in as |->
                  [Id |-> id, IsPersonAccount |-> (id = "A1"), UUID__c |-> GivenUuid(id)]]
    /\ sfEnrollments = [id \in Range(EnrollmentOrder) |->
            [Id |-> id, ProgramId |-> InitialEnrollment(id).ProgramId,
             AccountId |-> InitialEnrollment(id).AccountId,
             Active |-> InitialEnrollment(id).Active, UUID__c |-> GivenUuid(id)]]
    /\ InitLocal
    /\ request = NULL
    /\ writeMissing = FALSE
    /\ sfAccountFields = {"LastName", "FirstName", "UUID__c"}

SpecScope == InitScope /\ [][NextCycle]_vars

\* cycles over a remote side on which the two accounts the enrollments refer
\* to are person accounts, and the second may carry the key of the first
InitIdentity ==
    /\ \E uA2 \in {GivenUuid("A2"), GivenUuid("A1")} :
          sfAccounts = [id \in Range(AccountOrder) |->
              [Id |-> id, IsPersonAccount |-> TRUE,
               UUID__c |-> IF id = "A2" THEN uA2 ELSE GivenUuid(id)]]
    /\ \E uP1 \in {NULL, GivenUuid("P1")} :
          sfPrograms = [id \in Range(ProgramOrder) |->
              [Id |-> id, Name |-> ProgramName(id),
               UUID__c |-> IF id = "P1" THEN uP1 ELSE GivenUuid(id)]]
    /\ sfEnrollments = [id \in Range(EnrollmentOrder) |->
            [Id |-> id, ProgramId |-> InitialEnrollment(id).ProgramId,
             AccountId |-> InitialEnrollment(id).AccountId,
             Active |-> InitialEnrollment(id).Active, UUID__c |-> GivenUuid(id)]]
    /\ InitLocal
    /\ request = NULL
    /\ writeMissing \in BOOLEAN
    /\ sfAccountFields = {"LastName", "FirstName", "UUID__c"}

SpecIdentity == InitIdentity /\ [][NextCycle]_vars

InitAccess ==
    /\ InitStores
    /\ \E method \in AccessMethods, path \in AccessPaths,
          query \in {"none", "name", "token", "ssn"}, status \in {200, 404} :
          request = [kind |-> "api", method |-> method, path |-> path, query |-> query,
                     status |-> status]

NextAccess == LogApiAccess

SpecAccess == InitAccess /\ [][NextAccess]_vars

InitToken == InitStores /\ request = NULL

\* InitStores has token_cache = <<>>; a cache past its margin is the other start
InitTokenRace ==
    /\ RemoteRecords(GivenUuid("P1"), GivenUuid("A1"), GivenUuid("E1"))
    /\ programs = init_schema_and_seed({})
    /\ participants = {}
    /\ program_enrollments = {}
    /\ uuidCounter = 0
    /\ outreach_encounters = {}
    /\ new_client_intakes = {}
    /\ sfIngested = <<>>
    /\ auditLog = <<>>
    /\ pushHist = [acked |-> {}, created |-> EmptyDict, lost |-> {}]
    /\ lastOp = [op |-> "startup", ok |-> TRUE, out |-> "ok"]
    /\ cycle = IdleCycle
    /\ clock = 0
    /\ InitThreads
    /\ request = NULL
    /\ writeMissing = FALSE
    /\ sfAccountFields = {"LastName", "FirstName", "UUID__c"}
    /\ token_cache \in {<<>>, ExpiredCache}

\* two request threads of POST /sync/PersonAccount, no request in flight
InitSubmissions ==
    /\ RemoteRecords(GivenUuid("P1"), GivenUuid("A1"), GivenUuid("E1"))
    /\ programs = init_schema_and_seed({})
    /\ participants = {}
    /\ program_enrollments = {}
    /\ uuidCounter = 0
    /\ outreach_encounters = {}
    /\ new_client_intakes = {}
    /\ sfIngested = <<>>
    /\ auditLog = <<>>
    /\ pushHist = [acked |-> {}, created |-> EmptyDict, lost |-> {}]
    /\ lastOp = [op |-> "startup", ok |-> TRUE, out |-> "ok"]
    /\ cycle = IdleCycle
    /\ clock = 0
    /\ token_cache = <<>>
    /\ callers = NoSubmissions
    /\ describe_cache = NoDescribes
    /\ parked = IdleCycle
    /\ notes_db = EmptyNotesDb
    /\ meta = EmptyDict
    /\ request = NULL
    /\ writeMissing = FALSE
    /\ sfAccountFields = {"LastName", "FirstName", "UUID__c"}

\* two request threads of POST /sync/upload over an empty SQLite file
InitUploads ==
    /\ RemoteRecords(GivenUuid("P1"), GivenUuid("A1"), GivenUuid("E1"))
    /\ programs = init_schema_and_seed({})
    /\ participants = {}
    /\ program_enrollments = {}
    /\ uuidCounter = 0
    /\ outreach_encounters = {}
    /\ new_client_intakes = {}
    /\ sfIngested = <<>>
    /\ auditLog = <<>>
    /\ pushHist = [acked |-> {}, created |-> EmptyDict, lost |-> {}]
    /\ lastOp = [op |-> "startup", ok |-> TRUE, out |-> "ok"]
    /\ cycle = IdleCycle
    /\ clock = 0
    /\ token_cache = <<>>
    /\ callers = NoUploads
    /\ describe_cache = NoDescribes
    /\ parked = IdleCycle
    /\ notes_db = EmptyNotesDb
    /\ meta = EmptyDict
    /\ request = NULL
    /\ writeMissing = FALSE
    /\ sfAccountFields = {"LastName", "FirstName", "UUID__c"}

NextUploads == UploadLoop \/ UploadCommit

SpecUploads == InitUploads /\ [][NextUploads]_vars

\* a client that has pulled nothing yet, and an empty SQLite file
InitPullNotes ==
    /\ InitStores
    /\ request = [kind |-> "pull", pc |-> "idle", since |-> 0, rows |-> {}, received |-> {}]

NextPullNotes == Upload \/ PullQuery \/ PullAnswer

\* the client pulls again and again, and a pull that has run its query
\* runs to its answer; nothing makes an upload arrive
SpecPullNotes ==
    InitPullNotes /\ [][NextPullNotes]_vars /\ WF_vars(PullQuery) /\ WF_vars(PullAnswer)

NextSubmissions == PersonArrives \/ PersonQueries \/ PersonCreates \/ PersonAnswers

SpecSubmissions == InitSubmissions /\ [][NextSubmissions]_vars

\* a person, the field set the describe returned and the record type id
InitPayload ==
    /\ InitStores
    /\ \E person \in [PersonKeys -> PersonValues], fields \in SUBSET AccountFieldNames,
          rt_id \in {NULL, "012"} :
          request = [kind |-> "person", person |-> person, fields |-> fields, rt_id |-> rt_id]

NextPayload == CreatePersonAccount

SpecPayload == InitPayload /\ [][NextPayload]_vars

InitLocalFirst ==
    /\ InitStores
    /\ \E handler \in WriteHandlers : request = NewWrite(handler)

NextLocalFirst == WriteStore \/ WriteRemote \/ WriteMark \/ WriteArrives

SpecLocalFirst == InitLocalFirst /\ [][NextLocalFirst]_vars

NextStatus == RunFullSync \/ GetSyncStatus

SpecStatus == InitPull /\ [][NextStatus]_vars

NextUpload == Upload

SpecUpload == InitToken /\ [][NextUpload]_vars

NextTwoCycles == NextCycle \/ SwitchRunner

SpecTwoCycles == InitPull /\ [][NextTwoCycles]_vars

NextRemote == SfCall \/ Tick

SpecRemote == InitToken /\ [][NextRemote]_vars

NextDescribe == Describe \/ GetAccountFields

SpecDescribe == InitToken /\ [][NextDescribe]_vars

NextTokenRace ==
    \/ GetTokenCall
    \/ GetTokenTest
    \/ GetTokenExpiry
    \/ GetTokenReturnToken
    \/ GetTokenReturnBase
    \/ GetTokenPost
    \/ GetTokenStore

SpecTokenRace == InitTokenRace /\ [][NextTokenRace]_vars

NextToken == GetToken \/ Tick

SpecToken == InitToken /\ [][NextToken]_vars

\* a redaction input: up to MaxNest containers around a leaf, and a bound
InitRedact ==
    /\ InitStores
    /\ \E n \in 0..MaxNest, leaf \in LeafKinds, max_depth \in 1..MaxDepthArg :
          \E kinds \in [1..n -> ContainerKinds] :
              request = [kind |-> "redact", kinds |-> kinds, leaf |-> leaf,
                         data |-> BuildFrom(kinds, 1, leaf), max_depth |-> max_depth]

NextRedact == RedactRequest

SpecRedact == InitRedact /\ [][NextRedact]_vars

NextErrorRedact == RedactSensitiveFields

SpecErrorRedact == InitRedact /\ [][NextErrorRedact]_vars

(***************************************************************************)
(* Properties.                                                             *)
(***************************************************************************)
\* every row of old that holds a remote id keeps its uuid in new
KeepsLocalIds(old, new) ==
    \A r \in old : r.sfid # NULL => \A r2 \in new : r2.sfid = r.sfid => r2.uuid = r.uuid

\* every row of old without a remote id is still in new under its uuid
KeepsLocalRows(old, new) ==
    \A r \in old : r.sfid = NULL => \E r2 \in new : r2.uuid = r.uuid

\* no remote id is held by two rows
NoDuplicateSfid(table) ==
    \A r1 \in table, r2 \in table : (r1.sfid # NULL /\ r1.sfid = r2.sfid) => r1 = r2

\* every remote id of old is still held in new, by the row that held it if
\* that row is still there
KeepsRemoteIds(old, new) ==
    \A r \in old : r.sfid # NULL =>
        /\ \E r2 \in new : r2.sfid = r.sfid
        /\ \A r2 \in new : r2.uuid = r.uuid => r2.sfid = r.sfid

\* a successful full sync that directly follows a successful full sync and
\* finds the remote records as the first one left them
SecondPull ==
    /\ lastOp.op = "run_full_sync" /\ lastOp.ok
    /\ lastOp'.op = "run_full_sync" /\ lastOp'.ok
    /\ UNCHANGED <<sfPrograms, sfAccounts, sfEnrollments>>

\* C1: a second run_full_sync against unchanged remote data reports the same
\* row counts as the first, leaves every remote record's row under the uuid
\* the first run gave it, and leaves no two rows for one remote record.
IdempotentPull ==
    [][SecondPull =>
        /\ lastOp'.out = lastOp.out
        /\ KeepsLocalIds(programs, programs')
        /\ KeepsLocalIds(participants, participants')
        /\ KeepsLocalIds(program_enrollments, program_enrollments')
        /\ NoDuplicateSfid(programs') /\ NoDuplicateSfid(participants')
        /\ NoDuplicateSfid(program_enrollments')]_vars

\* the references of an input enrollment resolve: its ProgramId is in the
\* program mapping and its AccountId in the participant mapping
RefsResolve(e, progIds, acctIds) == e.ProgramId \in progIds /\ e.AccountId \in acctIds

\* C2: a call of upsert_enrollments inserts no row for an input enrollment
\* whose ProgramId or AccountId is absent from its mapping, inserts a row for
\* every input enrollment whose references both resolve (also after a skipped
\* one), and returns as many entries as there are resolving inputs.
ReferentialDrop ==
    [][lastOp'.op = "upsert_enrollments" =>
        LET o == lastOp'.out
            resolving == {i \in 1..Len(o.rows) : RefsResolve(o.rows[i], o.progIds, o.acctIds)}
        IN  /\ \A i \in (1..Len(o.rows)) \ resolving :
                  {r \in program_enrollments' : r.sfid = o.rows[i].Id} \subseteq program_enrollments
            /\ \A i \in resolving :
                  \E r \in program_enrollments' :
                      /\ r.sfid = o.rows[i].Id
                      /\ r.program_id = o.rows[i].ProgramId
                      /\ r.enrollee_id = o.rows[i].AccountId
            /\ Cardinality(DOMAIN o.enr_uuid_by_id) = Cardinality(resolving)]_vars

\* a call whose first row was skipped and whose second row was inserted
ReferentialDropWitness ==
    /\ lastOp.op = "upsert_enrollments"
    /\ ~RefsResolve(lastOp.out.rows[1], lastOp.out.progIds, lastOp.out.acctIds)
    /\ RefsResolve(lastOp.out.rows[2], lastOp.out.progIds, lastOp.out.acctIds)
    /\ ~\E r \in program_enrollments : r.sfid = lastOp.out.rows[1].Id
    /\ \E r \in program_enrollments : r.sfid = lastOp.out.rows[2].Id

\* the remote Accounts keyed by a localId
AccountsKeyedBy(localId) == {id \in DOMAIN sfAccounts : sfAccounts[id].UUID__c = localId}

\* C3: at most one remote Account is keyed by any localId, and a successful
\* sync_person_account returns the id the first creation for that localId
\* produced, also when that creation's response was lost.
PushIdempotent ==
    /\ \A localId \in ClientIds \cup {uuid4(n) : n \in 1..uuidCounter} :
          Cardinality(AccountsKeyedBy(localId)) <= 1
    /\ (lastOp.op = "sync_person_account" /\ lastOp.ok) =>
          lastOp.out.salesforceId = DictGet(pushHist.created, lastOp.out.localId)

\* a localId whose first submission was lost has been submitted again, and
\* that submission succeeded without creating
PushRetryWitness ==
    /\ lastOp.op = "sync_person_account" /\ lastOp.ok
    /\ lastOp.out.localId \in pushHist.lost
    /\ ~lastOp.out.created
    /\ Cardinality(AccountsKeyedBy(lastOp.out.localId)) = 1

\* C4: an audit write that fails never raises into its caller: the response
\* of sync_person_account depends on the push alone (200 with the remote id
\* when it went through, 500 otherwise), the middleware hands on the
\* handler's response, and the failure is logged locally.
AuditIsolation ==
    /\ lastOp.op = "sync_person_account" =>
          LET o == lastOp.out
              a == IF o.pushed THEN o.audit[1] ELSE o.audit[2]
          IN  /\ ~o.auditRaised
              /\ o.status = (IF o.pushed THEN 200 ELSE 500)
              /\ o.pushed => o.salesforceId \in AccountsKeyedBy(o.localId)
              /\ a # "ok" => \E i \in 1..Len(o.errors) : o.errors[i] = "audit_log: " \o a
    /\ lastOp.op = "middleware" =>
          LET o == lastOp.out
          IN  /\ ~o.auditRaised
              /\ o.response = o.handler
              /\ (o.auditAttempted /\ o.audit # "ok") =>
                    \E i \in 1..Len(o.errors) : o.errors[i] = "audit_log: " \o o.audit

\* a push that went through while its audit write failed with a non-SFError
AuditIsolationWitness ==
    /\ lastOp.op = "sync_person_account"
    /\ lastOp.out.pushed /\ lastOp.out.created
    /\ lastOp.out.audit[1] = "error"
    /\ lastOp.out.status = 200
    /\ auditLog = <<>>

\* C5: an outbox item is marked synced, or reported as synced, only after a
\* remote call for it returned a successful acknowledgment.
SyncedOnlyAfterAck ==
    /\ \A r \in outreach_encounters \cup new_client_intakes : r.synced => r.id \in pushHist.acked
    /\ lastOp.op = "sync_notes_to_sf" => lastOp.out.synced_ids \subseteq pushHist.acked

\* C6: a push whose remote submission fails answers with a success response
\* carrying synced = false, never with an error.
FailedPushIsSuccess ==
    (lastOp.op \in {"sync_person_account", "create_quick_person_account"} /\ ~lastOp.out.pushed)
        => (lastOp.out.status = 200 /\ lastOp.out.synced = FALSE)

\* C7: after a full sync that ran with the remote system reachable, no outbox
\* item is left with synced = false and no participant without a remote id.
RetryResubmits ==
    (lastOp.op = "run_full_sync" /\ lastOp.ok) =>
        /\ \A r \in outreach_encounters \cup new_client_intakes : r.synced
        /\ \A r \in participants : r.sfid # NULL

\* C8: for every request to a PHI endpoint that the middleware processes, an
\* audit write is attempted, whatever the handler did.
AuditCoverage ==
    (lastOp.op = "middleware" /\ ~lastOp.out.excluded /\ is_phi_endpoint(lastOp.out.path))
        => lastOp.out.auditAttempted

\* C9: no step replaces the uuid of a row: a row holding a remote id keeps its
\* uuid, and a locally created row stays in its table under its uuid.
StableLocalId ==
    [][/\ KeepsLocalIds(programs, programs')
       /\ KeepsLocalIds(participants, participants')
       /\ KeepsLocalIds(program_enrollments, program_enrollments')
       /\ KeepsLocalRows(programs, programs')
       /\ KeepsLocalRows(participants, participants')]_vars

\* a step in which the store file was deleted and created anew
StoreReset == lastOp'.op = "startup" /\ lastOp'.out = "conflict"

StepRank(step) ==
    CASE step = "fetch_programs" -> 1
      [] step = "fetch_enrollments" -> 2
      [] step = "fetch_accounts" -> 3
      [] step = "upsert_programs" -> 4
      [] step = "upsert_participants" -> 5
      [] OTHER -> 6

\* C11: within one cycle the statements run in the order fetch Programs,
\* fetch Enrollments, fetch Participants, upsert Programs, upsert
\* Participants, upsert Enrollments; upsert_enrollments runs only after both
\* upserts that build the mappings have run in the same cycle, and it is
\* only then that the cycle changes the program_enrollments table
CycleOrder ==
    [][/\ \A i \in 1..Len(cycle'.trace), j \in 1..Len(cycle'.trace) :
             i < j => StepRank(cycle'.trace[i]) < StepRank(cycle'.trace[j])
       /\ "upsert_enrollments" \in Range(cycle'.trace)
             => {"upsert_programs", "upsert_participants"} \subseteq Range(cycle'.trace)
       /\ program_enrollments' # program_enrollments
             => /\ {"upsert_programs", "upsert_participants"} \subseteq Range(cycle.trace)
                /\ cycle'.trace = Append(cycle.trace, "upsert_enrollments")]_vars

\* a cycle has run all six statements and stored an enrollment
CycleOrderWitness ==
    /\ cycle.pc = "done" /\ Len(cycle.trace) = 6
    /\ program_enrollments # {}

\* every row a mapping of the cycle names is in its table
MappedRowsRemain ==
    /\ \A id \in DOMAIN cycle.prog_uuid_by_id :
          \E r \in programs : r.sfid = id /\ r.uuid = cycle.prog_uuid_by_id[id]
    /\ \A id \in DOMAIN cycle.acct_uuid_by_id :
          \E r \in participants : r.sfid = id /\ r.uuid = cycle.acct_uuid_by_id[id]

\* C12: a cycle that fails (authentication, a remote query, or any other
\* exception) has raised exactly one error to its caller, reports failure,
\* has closed its store handle, and the rows it wrote before failing are
\* still in the store; a failing remote call changes no table
CycleFailure ==
    [][cycle'.pc = "failed" =>
          /\ cycle'.raised = 1
          /\ ~cycle'.open
          /\ ~lastOp'.ok
          /\ MappedRowsRemain'
          /\ (cycle.pc # "failed" /\ cycle'.error \in {"SFAuthError", "SFError"})
                => UNCHANGED <<programs, participants, program_enrollments>>]_vars

\* a cycle failed on a remote query, and one failed after writing a program row
CycleFailureWitness ==
    /\ cycle.pc = "failed" /\ cycle.error = "SFError"
    /\ Range(cycle.trace) = {"fetch_programs", "fetch_enrollments", "fetch_accounts"}
    /\ program_enrollments # {}

JoinOnLocalIds ==
    {[enrollment_uuid |-> t[1].uuid, program_uuid |-> t[2].uuid, participant_uuid |-> t[3].uuid] :
        t \in {x \in program_enrollments \X programs \X participants :
                 x[2].uuid = x[1].program_id /\ x[3].uuid = x[1].enrollee_id}}

\* C14: the parent references stored on a local Enrollment row are the local
\* ids of its Program and Participant rows, and the active-enrollment view
\* joins on those local ids
ParentRefsAreLocalIds ==
    /\ \A e \in program_enrollments :
          /\ \E p \in programs : p.uuid = e.program_id
          /\ \E pa \in participants : pa.uuid = e.enrollee_id
    /\ baseline_active_enrollments(program_enrollments, programs, participants) = JoinOnLocalIds

\* out is what the claim requires for the structure src visited at depth:
\* at or beyond the bound, the depth-exceeded marker; below it, the same
\* shape with the redaction marker under every sensitive key
RECURSIVE RedactedTo(_, _, _, _)
RedactedTo(src, out, depth, max_depth) ==
    IF depth >= max_depth THEN IsStr(out, MAX_DEPTH_REDACTED)
    ELSE CASE src.t = "d" ->
                /\ out.t = "d" /\ DOMAIN out.v = DOMAIN src.v
                /\ \A key \in DOMAIN src.v :
                      IF IsSensitiveKey(key) THEN IsStr(out.v[key], REDACTED)
                      ELSE src.v[key].t \in {"d", "l"}
                              => RedactedTo(src.v[key], out.v[key], depth + 1, max_depth)
           [] src.t = "l" ->
                /\ out.t = "l" /\ Len(out.v) = Len(src.v)
                /\ \A i \in 1..Len(src.v) :
                      RedactedTo(src.v[i], out.v[i], depth + 1, max_depth)
           [] OTHER -> TRUE

\* the scalar strings that occur in a value
RECURSIVE Scalars(_)
Scalars(x) ==
    CASE x.t = "d" -> UNION {Scalars(x.v[key]) : key \in DOMAIN x.v}
      [] x.t = "l" -> UNION {Scalars(x.v[i]) : i \in 1..Len(x.v)}
      [] OTHER -> {x.v}

\* the leaf of the request lies at or beyond the bound, or below a sensitive key
LeafMustGo ==
    \/ Len(request.kinds) >= request.max_depth
    \/ \E i \in 1..Len(request.kinds) : request.kinds[i] = "s"
    \/ request.leaf \in {"access_token", "Authorization"}

\* C15: redact_dict_recursive puts the redaction marker under every
\* sensitive key of a dict at depth below max_depth, replaces every
\* sub-structure at depth max_depth or more by the depth-exceeded marker, and
\* the value held at or beyond the bound, or under a sensitive key, does not
\* occur in the output (depth counts the dicts and lists around a structure;
\* list items count one level deeper than their list)
RedactionDepthBound ==
    lastOp.op = "redact_dict_recursive" =>
        /\ RedactedTo(request.data, lastOp.out, 0, request.max_depth)
        /\ LeafMustGo => "secret" \notin Scalars(lastOp.out)

\* the leaf dict lies at depth 3 = max_depth and is replaced by the marker; the
\* scalars directly under keys of the dicts at depths 0 and 2 are kept
RedactionDepthWitness ==
    /\ lastOp.op = "redact_dict_recursive"
    /\ request.max_depth = 3 /\ request.kinds = <<"d", "l", "d">>
    /\ request.leaf = "name"
    /\ Scalars(lastOp.out) = {"note-1", "note-3", MAX_DEPTH_REDACTED}

\* under every sensitive key of x, at any depth, lies the redaction marker
RECURSIVE SensitiveKeysMarked(_)
SensitiveKeysMarked(x) ==
    CASE x.t = "d" -> \A key \in DOMAIN x.v :
                          IF IsSensitiveKey(key) THEN IsStr(x.v[key], REDACTED)
                          ELSE SensitiveKeysMarked(x.v[key])
      [] x.t = "l" -> \A i \in 1..Len(x.v) : SensitiveKeysMarked(x.v[i])
      [] OTHER -> TRUE

\* C16: the audit_json of every remote audit record holds the fixed
\* redaction marker under each key that matches the sensitive-term list, the
\* keys of the request's query parameters included
AuditJsonRedacted ==
    \A i \in 1..Len(auditLog) : SensitiveKeysMarked(auditLog[i].Audit_JSON__c)

\* the path starts with a protected-data prefix and with no exclusion prefix
IsProtectedPath(path) ==
    /\ \E i \in 1..Len(PHI_ACCESS_PATTERNS) : StartsWith(path, PHI_ACCESS_PATTERNS[i].pattern)
    /\ \A excluded \in NON_PHI_ENDPOINTS : ~StartsWith(path, excluded)

\* C17: log_api_access issues the remote audit write exactly for a path that
\* starts with a protected-data prefix and with no exclusion prefix (the
\* record is stored when the remote create succeeds); for every other path no
\* audit record is written
AuditClassification ==
    /\ lastOp.op = "log_api_access" =>
          /\ lastOp.out.attempted <=> IsProtectedPath(request.path)
          /\ lastOp.out.written = 1 <=>
                (IsProtectedPath(request.path) /\ lastOp.out.audit = "ok")
    /\ ~IsProtectedPath(request.path) => auditLog = <<>>

\* a protected path below a prefix has been audited
AuditClassificationWitness ==
    /\ lastOp.op = "log_api_access" /\ lastOp.out.written = 1
    /\ request.path = "/api/sync/upload"
    /\ Len(auditLog) = 1

\* the verb part of the action code for a method
VerbSuffix(method) ==
    CASE method \in {"POST", "post"} -> "_CREATE"
      [] method \in {"PUT", "PATCH"} -> "_MODIFY"
      [] method = "DELETE" -> "_DELETE"
      [] OTHER -> ""

\* C18: for a protected path the action code is the noun of every prefix the
\* path starts with (so of exactly one noun), followed by _CREATE for POST,
\* _MODIFY for PUT and PATCH, _DELETE for DELETE and nothing for GET, HEAD and
\* OPTIONS; the code written to the audit record is that action code
ActionTypeDerivation ==
    (lastOp.op = "log_api_access" /\ lastOp.out.attempted) =>
        /\ \A i \in 1..Len(PHI_ACCESS_PATTERNS) :
              StartsWith(request.path, PHI_ACCESS_PATTERNS[i].pattern)
                 => lastOp.out.action_type
                        = PHI_ACCESS_PATTERNS[i].action \o VerbSuffix(request.method)
        /\ lastOp.out.written = 1
              => auditLog[Len(auditLog)].Action__c = lastOp.out.action_type

\* a PATCH of a protected path has been audited as a modification
ActionTypeWitness ==
    /\ lastOp.op = "log_api_access" /\ lastOp.out.written = 1
    /\ request.method = "PATCH" /\ request.path = "/api/cases"
    /\ auditLog[1].Action__c = "ACCESS_CASE_MODIFY"

\* C19: the remote audit records only grow: every step leaves each record
\* written so far in place and unmodified, and adds records at the end only
AuditAppendOnly ==
    [][/\ Len(auditLog') >= Len(auditLog)
       /\ \A i \in 1..Len(auditLog) : auditLog'[i] = auditLog[i]]_vars

\* two audit records have been written, by both audited paths
AuditAppendWitness ==
    /\ Len(auditLog) >= 2
    /\ auditLog[1].Action__c # auditLog[2].Action__c
    /\ lastOp.op = "middleware"

\* C20: a call of _get_token returns the cached token without contacting
\* the auth endpoint exactly when a token is cached whose recorded expiry is
\* more than 30 seconds after the time of the call; otherwise it contacts the
\* endpoint and, when the endpoint answers with a token, replaces the cache by
\* that token expiring 14 minutes later (when it refuses, the call raises and
\* the cache stays as it was)
TokenCacheMargin ==
    [][clock' = clock =>
          LET cached == token_cache # <<>> /\ token_cache[3] - clock > 30
          IN  /\ lastOp'.op = "_get_token"
              /\ lastOp'.out.contacted <=> ~cached
              /\ cached => /\ token_cache' = token_cache
                           /\ lastOp'.ok /\ lastOp'.out.token = token_cache[1]
              /\ (~cached /\ lastOp'.ok) =>
                     /\ token_cache' # <<>> /\ token_cache'[3] = clock + 14 * 60
                     /\ token_cache' # token_cache
                     /\ lastOp'.out.token = token_cache'[1]
              /\ (~cached /\ ~lastOp'.ok) => token_cache' = token_cache]_vars

\* a call has returned the cached token with 40 seconds of validity left
TokenCacheWitness ==
    /\ lastOp.op = "_get_token" /\ ~lastOp.out.contacted
    /\ token_cache # <<>> /\ token_cache[3] - clock = 40


\* the pair is the one authentication k issued
IssuedBy(token, base, k) == token = AccessToken(k) /\ base = InstanceUrl(k)

\* C21: under every interleaving of concurrent _get_token calls that start
\* with a cold or expired cache, every caller that returns has a (token,
\* instance URL) pair issued by one successful authentication of this run,
\* and once all callers are through the cache holds one such pair with its
\* own expiry
TokenRaceSafe ==
    /\ \A t \in Threads :
          callers.th[t].pc = "done" =>
              \E k \in 1..callers.issued :
                  IssuedBy(callers.th[t].token, callers.th[t].base, k)
    /\ ( /\ \A t \in Threads : callers.th[t].pc \in {"done", "raised"}
         /\ \E t \in Threads : callers.th[t].pc = "done" )
       => /\ token_cache # <<>>
          /\ \E k \in 1..callers.issued : IssuedBy(token_cache[1], token_cache[2], k)
          /\ token_cache[3] = clock + TOKEN_LIFETIME


\* the operations that describe an object type
DescribeOps == {"describe", "_get_account_fields"}

\* C22: after the first successful describe of an object type, every later
\* describe of the same type (keys are case-insensitive) returns the first
\* result without a remote call, whatever the first result was, and no
\* entry of the cache is ever evicted
DescribeCached ==
    [][ /\ \A key \in DOMAIN describe_cache.by_name : key \in DOMAIN describe_cache'.by_name
        /\ describe_cache.account_fields # <<>> =>
              describe_cache'.account_fields = describe_cache.account_fields
        /\ ( /\ lastOp' # lastOp
             /\ lastOp'.op \in DescribeOps
             /\ lastOp'.out.key \in DOMAIN describe_cache.first )
           => /\ lastOp'.ok
              /\ ~lastOp'.out.contacted
              /\ lastOp'.out.result = describe_cache.first[lastOp'.out.key].fields ]_vars

\* C23: every field name in the payload create_person_account sends is in
\* the described field set and no null or blank value is sent; a field the
\* schema does not expose is dropped without an error from the filter
SchemaDriftFilter ==
    lastOp.op = "create_person_account" =>
        LET payload == lastOp.out.payload
        IN  /\ DOMAIN payload \subseteq request.fields
            /\ \A k \in DOMAIN payload : ~IsNullOrBlank(payload[k])
            /\ \A k \in DOMAIN PersonBase(request.person, request.rt_id) :
                  ( ~IsNullOrBlank(PersonBase(request.person, request.rt_id)[k])
                    /\ k \in request.fields )
                  => payload[k] = PersonBase(request.person, request.rt_id)[k]

\* a person with a name and a local id is sent to an org that exposes
\* neither UUID__c nor FirstName: the payload goes out without them
SchemaDriftWitness ==
    /\ lastOp.op = "create_person_account"
    /\ lastOp.ok
    /\ request.person["uuid"] = "Al"
    /\ request.person["firstName"] = "Al"
    /\ request.person["lastName"] = " "
    /\ request.fields = {"LastName", "RecordTypeId", SSN_STATUS_FIELD}
    /\ request.rt_id = "012"
    /\ DOMAIN lastOp.out.payload = {"RecordTypeId", SSN_STATUS_FIELD}

\* C24: a token request answered with a status other than 200 raises
\* SFAuthError after that one request and leaves the token cache as it was;
\* a call answered with a status of 400 or more raises SFError carrying the
\* status and the body; a call that fails returns no result
ErrorTaxonomy ==
    [][ (lastOp'.op = "_sf" /\ lastOp' # lastOp) =>
          LET out == lastOp'.out
          IN  /\ (out.token_answer.kind = "response" /\ out.token_answer.status # 200)
                 => /\ out.error = "SFAuthError"
                    /\ out.token_requests = 1 /\ out.requests = 0
                    /\ token_cache' = token_cache
              /\ (out.answer.kind = "response" /\ out.answer.status >= 400)
                 => /\ out.error = "SFError"
                    /\ out.carried = <<out.answer.status, out.answer.body>>
                    /\ out.requests = 1
              /\ (out.answer.kind = "response" /\ out.answer.status < 400)
                 => out.error = "none"
              /\ out.error # "none" => out.result = NULL /\ ~lastOp'.ok ]_vars

\* with a token cached, a call is answered 404 and raises SFError carrying
\* the 404 and the body
ErrorTaxonomyWitness ==
    /\ lastOp.op = "_sf"
    /\ lastOp.out.error = "SFError"
    /\ lastOp.out.carried = <<404, "body">>
    /\ lastOp.out.token_requests = 0
    /\ token_cache # <<>>

\* C25: a timeout of a remote call surfaces as the SFError a 5xx response
\* surfaces as
TimeoutIsRemoteError ==
    ( /\ lastOp.op = "_sf"
      /\ "timeout" \in {lastOp.out.token_answer.kind, lastOp.out.answer.kind} )
    => lastOp.out.error = "SFError"

\* C26: an intake goes to the remote composite procedure as one request; when
\* the request fails or the response does not report success the intake is
\* stored with synced = FALSE and nothing of it is recorded as acknowledged;
\* requests re-issued for the same encounter leave one remote record set
IntakeComposite ==
    [][ /\ Len(sfIngested') <= Len(sfIngested) + 1
        /\ (lastOp' # lastOp /\ lastOp'.op = "create_new_client_intake")
           => LET new == new_client_intakes' \ new_client_intakes
              IN  /\ Cardinality(new) = 1
                  /\ \A row \in new : row.synced = lastOp'.out.synced
                  /\ ~lastOp'.out.synced => pushHist'.acked = pushHist.acked
                  /\ lastOp'.out.synced => Len(sfIngested') = Len(sfIngested) + 1
        /\ \A i, j \in 1..Len(RemoteEncounters(sfIngested')) :
              RemoteEncounters(sfIngested')[i] = RemoteEncounters(sfIngested')[j] => i = j ]_vars

\* an intake whose request was processed but not acknowledged stays
\* synced = FALSE; the request for the same encounter is issued again and
\* acknowledged, and the remote side holds one record set for the encounter
IntakeCompositeWitness ==
    /\ lastOp.op = "create_new_client_intake"
    /\ lastOp.out.synced
    /\ \E row \in new_client_intakes : ~row.synced
    /\ Len(sfIngested) = 2
    /\ sfIngested[1] = sfIngested[2]
    /\ Len(RemoteEncounters(sfIngested)) = 1

\* both run_full_sync calls have started and neither has failed
BothRunning == cycle.pc \notin {"idle", "failed"} /\ parked.pc \notin {"idle", "failed"}

\* C27: while two full syncs are interleaved over the same remote records,
\* the Local Cache is the one a single cycle builds: a remote record keeps
\* the localId it was first stored under and has one row
TwoCyclesAsOne ==
    [][BothRunning' =>
        /\ KeepsLocalIds(programs, programs')
        /\ KeepsLocalIds(participants, participants')
        /\ KeepsLocalIds(program_enrollments, program_enrollments')
        /\ NoDuplicateSfid(programs') /\ NoDuplicateSfid(participants')
        /\ NoDuplicateSfid(program_enrollments')]_vars

\* the stored serverVersion as a number; without a Meta row it reads as 0
StoredVersion(db) == IF db.serverVersion = NULL THEN 0 ELSE IntOf(db.serverVersion)

\* the insert, update and delete mutations on notes in a request
VersionedCount(mutations) ==
    Cardinality({i \in 1..Len(mutations) : IsVersioned(mutations[i])})

\* C28: over upload requests the stored serverVersion never decreases; a
\* request that is applied raises it by one for each of its insert, update
\* and delete mutations on notes and answers with the value stored after
\* it; a request that fails leaves it as it was
ServerVersionMonotone ==
    [][ /\ StoredVersion(notes_db') >= StoredVersion(notes_db)
        /\ (lastOp' # lastOp /\ lastOp'.op = "upload") =>
              IF lastOp'.ok
              THEN /\ StoredVersion(notes_db') =
                          StoredVersion(notes_db) + VersionedCount(lastOp'.out.mutations)
                   /\ lastOp'.out.serverVersion = StoredVersion(notes_db')
                   /\ \A n \in notes_db'.notes : n.version <= StoredVersion(notes_db')
              ELSE notes_db' = notes_db ]_vars

\* an upload of an update and a delete answers 4 with 4 stored
ServerVersionWitness ==
    /\ lastOp.op = "upload" /\ lastOp.ok
    /\ Len(lastOp.out.mutations) = 2
    /\ lastOp.out.mutations[1].op = "update" /\ lastOp.out.mutations[2].op = "delete"
    /\ VersionedCount(lastOp.out.mutations) = 2
    /\ lastOp.out.serverVersion = 4
    /\ notes_db.serverVersion = "4"

\* C29: get_sync_status called after a full sync that completed without
\* error reports a last sync time, the time of that cycle
LastSyncReported ==
    [][ ( /\ lastOp.op = "run_full_sync" /\ lastOp.ok
          /\ lastOp'.op = "get_sync_status" /\ lastOp'.ok )
        => lastOp'.out.last_sync_time # NULL ]_vars

\* the table a handler stores its record in, as the ids of its rows
StoredIds(handler) ==
    CASE handler = "create_quick_person_account" -> {r.uuid : r \in participants}
      [] handler = "submit_outreach_encounter" -> {r.id : r \in outreach_encounters}
      [] OTHER -> {r.id : r \in new_client_intakes}

\* C30: in each of the three application writes the record is in the Local
\* Cache before the remote call for it is issued, and a write whose local
\* insert failed issues no remote call
LocalFirst ==
    request.kind = "write" =>
        /\ \A i \in 1..Len(request.trace) :
              request.trace[i] = "remote_call" =>
                  /\ \E j \in 1..(i - 1) : request.trace[j] = "local_store"
                  /\ request.id \in StoredIds(request.handler)
        /\ request.pc = "remote" => request.id \in StoredIds(request.handler)
        /\ (\E i \in 1..Len(request.trace) : request.trace[i] = "local_store_failed")
              => /\ \A i \in 1..Len(request.trace) : request.trace[i] # "remote_call"
                 /\ request.pc = "failed"
                 /\ request.id \notin pushHist.acked \cup pushHist.lost
                 /\ \A i \in 1..Len(sfIngested) : sfIngested[i] # request.id

\* an intake, the second write of the run, is in the Local Cache when its
\* remote call has been issued and has failed
LocalFirstWitness ==
    /\ request.kind = "write"
    /\ request.handler = "create_new_client_intake"
    /\ request.trace = <<"local_store", "remote_call">>
    /\ request.id = uuid4(2)
    /\ new_client_intakes = {[id |-> uuid4(2), synced |-> FALSE]}
    /\ lastOp.out.status = 200 /\ ~lastOp.out.synced

\* the remote record id lacked its key when it was fetched and lacks it after
\* the upsert: the write-back was attempted and failed
WriteBackFailed(r, sfAfter) ==
    writeMissing /\ ~Truthy(r.UUID__c) /\ ~Truthy(sfAfter[r.Id].UUID__c)

\* u is a value uuid4() has returned by the time ctr draws were made
IsGenerated(u, ctr) == \E n \in 1..ctr : u = uuid4(n)

\* the upsert statement step ran to its end in this step
UpsertReturned(step) ==
    /\ cycle.pc = step /\ cycle'.pc # "failed"
    /\ cycle'.trace = Append(cycle.trace, step)

\* the rows upsert_enrollments does not skip
ResolvedEnrollments ==
    SelectSeq(cycle.enrollments,
              LAMBDA e : EnrollmentResolves(e, cycle.prog_uuid_by_id, cycle.acct_uuid_by_id))

\* the fetched enrollments whose write-back failed in this step
FailedEnrollmentWriteBacks ==
    {e.Id : e \in {x \in Range(cycle.enrollments) : WriteBackFailed(x, sfEnrollments')}}

\* C31: when write-back is enabled and the write-back of a record with a
\* blank reconciliation key fails, the upsert still returns: every record of
\* the batch is in the returned mapping, and the record whose write-back
\* failed is stored under a generated identifier, the one the mapping gives
BestEffortWriteBack ==
    [][/\ UpsertReturned("upsert_programs") =>
            \A r \in Range(cycle.programs) :
                /\ r.Id \in DOMAIN cycle'.prog_uuid_by_id
                /\ WriteBackFailed(r, sfPrograms') =>
                      /\ IsGenerated(cycle'.prog_uuid_by_id[r.Id], uuidCounter')
                      /\ ProgramRow(cycle'.prog_uuid_by_id[r.Id], r) \in programs'
       /\ UpsertReturned("upsert_participants") =>
            \A a \in {x \in Range(cycle.accounts) : x.IsPersonAccount} :
                /\ a.Id \in DOMAIN cycle'.acct_uuid_by_id
                /\ WriteBackFailed(a, sfAccounts') =>
                      /\ IsGenerated(cycle'.acct_uuid_by_id[a.Id], uuidCounter')
                      /\ ParticipantRow(cycle'.acct_uuid_by_id[a.Id], a) \in participants'
       /\ UpsertReturned("upsert_enrollments") =>
            LET s == upsert_enrollments(program_enrollments, sfEnrollments, uuidCounter,
                                        cycle.enrollments, cycle.prog_uuid_by_id,
                                        cycle.acct_uuid_by_id, FailedEnrollmentWriteBacks)
            IN  /\ program_enrollments' = s.db
                /\ \A e \in Range(ResolvedEnrollments) :
                      /\ e.Id \in DOMAIN s.map
                      /\ WriteBackFailed(e, sfEnrollments') =>
                            /\ IsGenerated(s.map[e.Id], uuidCounter')
                            /\ EnrollmentRow(s.map[e.Id], e) \in program_enrollments'
      ]_vars

\* a cycle has ended in which the write-backs of a program, a person account
\* and an enrollment failed: the three rows are stored under generated
\* identifiers and the remote records still lack their keys
BestEffortWriteBackWitness ==
    /\ cycle.pc = "done" /\ writeMissing
    /\ ~Truthy(sfPrograms["P1"].UUID__c)
    /\ ~Truthy(sfAccounts["A1"].UUID__c)
    /\ ~Truthy(sfEnrollments["E1"].UUID__c)
    /\ \E r \in programs : r.sfid = "P1" /\ IsGenerated(r.uuid, uuidCounter)
    /\ \E r \in participants : r.sfid = "A1" /\ IsGenerated(r.uuid, uuidCounter)
    /\ \E r \in program_enrollments : r.sfid = "E1" /\ IsGenerated(r.uuid, uuidCounter)
    /\ \E r \in programs : r.sfid = "P2"

\* under every key of x that error_handling.py takes for sensitive, at any
\* depth, lies the redaction marker
RECURSIVE SensitiveFieldsMarked(_)
SensitiveFieldsMarked(x) ==
    CASE x.t = "d" -> \A key \in DOMAIN x.v :
                          IF IsSensitiveField(key) THEN IsStr(x.v[key], REDACTED)
                          ELSE SensitiveFieldsMarked(x.v[key])
      [] x.t = "l" -> \A i \in 1..Len(x.v) : SensitiveFieldsMarked(x.v[i])
      [] OTHER -> TRUE

\* C33: for a dict input, the output of redact_dict_sensitive_fields holds
\* the original value under no sensitive key at any depth, and a value held
\* at depth max_depth or more does not occur in the output
ErrorRedactionDepthBound ==
    (lastOp.op = "redact_dict_sensitive_fields" /\ request.data.t = "d") =>
        /\ SensitiveFieldsMarked(lastOp.out)
        /\ LeafMustGo => "secret" \notin Scalars(lastOp.out)

\* the remote ids held by the rows of a table
SfidsOf(table) == {r.sfid : r \in table} \ {NULL}

\* C32: the enrollments a cycle fetches refer to programs fetched in the same
\* cycle, the accounts it fetches are referenced by a fetched enrollment, and
\* a cycle that fetched no program issues no enrollment and no account query;
\* after a cycle that ran to its end the participants are the person accounts
\* referenced by a fetched enrollment and the enrollments are the fetched
\* ones whose program and account are both in the mappings of the cycle
FetchScoping ==
    /\ \A e \in Range(cycle.enrollments) : e.ProgramId \in prog_ids_of(cycle.programs)
    /\ \A a \in Range(cycle.accounts) : a.Id \in acct_ids_of(cycle.enrollments)
    /\ prog_ids_of(cycle.programs) = {}
          => /\ "fetch_enrollments" \notin Range(cycle.trace)
             /\ "fetch_accounts" \notin Range(cycle.trace)
    /\ cycle.pc = "done" =>
          /\ SfidsOf(participants) =
                {id \in DOMAIN sfAccounts :
                    /\ sfAccounts[id].IsPersonAccount
                    /\ id \in acct_ids_of(cycle.enrollments)}
          /\ SfidsOf(program_enrollments) =
                {e.Id : e \in {x \in Range(cycle.enrollments) :
                                  /\ x.ProgramId \in DOMAIN cycle.prog_uuid_by_id
                                  /\ x.AccountId \in DOMAIN cycle.acct_uuid_by_id}}

\* the cycle of the example: the enrollments E1, E2 and E4 were fetched for the
\* programs P1 and P2, A2 is not a person account, and only E1 and A1 are stored
FetchScopingWitness ==
    /\ cycle.pc = "done"
    /\ IdsOf(cycle.programs) = {"P1", "P2"}
    /\ IdsOf(cycle.enrollments) = {"E1", "E2", "E4"}
    /\ SfidsOf(participants) = {"A1"}
    /\ SfidsOf(program_enrollments) = {"E1"}

\* a cycle that fetched no program has ended without the two other queries
NoProgramNoQuery ==
    /\ cycle.pc = "done" /\ cycle.programs = <<>>
    /\ cycle.trace = <<"fetch_programs", "upsert_programs", "upsert_participants",
                       "upsert_enrollments">>

\* C34: under every interleaving of concurrent sync_person_account
\* submissions, at most one remote Account is keyed by any one localId
ConcurrentPushIdempotent ==
    \A localId \in ClientIds : Cardinality(AccountsKeyedBy(localId)) <= 1

\* the stored serverVersion as a number, 0 without a Meta row
StoredServerVersion ==
    IF notes_db.serverVersion = NULL THEN 0 ELSE IntOf(notes_db.serverVersion)

\* C35: under every interleaving of concurrent uploads, no two applied
\* mutations were handed the same version, and once every request has been
\* answered the stored serverVersion is the initial one (0) plus the number
\* of applied mutations
VersionsUnique ==
    /\ \A i, j \in 1..Len(callers.assigned) :
          i # j => callers.assigned[i] # callers.assigned[j]
    /\ (\A t \in Submitters : callers.th[t].pc # "commit")
          => StoredServerVersion = Len(callers.assigned)

\* every note an upload can store
NoteVersions == [id : {"n1", "n2"}, version : 1..(MaxVersion + MaxMutations)]

\* C36: the serverVersion a pull returns is at least the version of every
\* note it returns, and a client that passes the serverVersion of each
\* answer as the since of its next pull eventually receives every stored
\* note (unless an upload has replaced or deleted it by then), under every
\* interleaving of uploads and pulls
PullComplete ==
    /\ [](lastOp.op = "pull" =>
             \A n \in lastOp.out.notes :
                 n.version > lastOp.out.since /\ n.version <= lastOp.out.serverVersion)
    /\ \A n \in NoteVersions :
          (n \in notes_db.notes) ~> (n \in request.received \/ n \notin notes_db.notes)

\* no two rows of the table share a uuid
NoDuplicateUuid(table) ==
    \A r1 \in table, r2 \in table : r1.uuid = r2.uuid => r1 = r2

\* C37: in each of programs, participants and program_enrollments no two
\* rows share a uuid and no two rows share a non-null sfid; and once an
\* upsert of the cycle has returned its mapping, every remote id in the
\* mapping is the sfid of a row whose uuid is the mapped value
IdentityUnique ==
    /\ NoDuplicateUuid(programs) /\ NoDuplicateSfid(programs)
    /\ NoDuplicateUuid(participants) /\ NoDuplicateSfid(participants)
    /\ NoDuplicateUuid(program_enrollments) /\ NoDuplicateSfid(program_enrollments)
    /\ MappedRowsRemain

FetchSteps == {"fetch_programs", "fetch_enrollments", "fetch_accounts"}

\* the three tables the cycle writes
CacheTables == <<programs, participants, program_enrollments>>

\* C38: a cycle writes no table before its remote fetches have succeeded:
\* a fetch step changes no table, a table changes only once every query the
\* cycle issues has answered, and a cycle that fails on authentication or on
\* a query has run fetch statements only, so the three tables are what they
\* were when it started
NoWriteBeforeFetches ==
    [][/\ cycle'.trace # cycle.trace /\ cycle'.trace[Len(cycle'.trace)] \in FetchSteps
            => UNCHANGED CacheTables
       /\ CacheTables' # CacheTables
            => /\ "fetch_programs" \in Range(cycle.trace)
               /\ prog_ids_of(cycle.programs) # {}
                     => "fetch_enrollments" \in Range(cycle.trace)
               /\ acct_ids_of(cycle.enrollments) # {}
                     => "fetch_accounts" \in Range(cycle.trace)
       /\ (cycle'.pc = "failed" /\ cycle'.error \in {"SFAuthError", "SFError"})
            => /\ Range(cycle'.trace) \subseteq FetchSteps
               /\ UNCHANGED CacheTables
      ]_vars

\* after an earlier cycle has stored a participant, a cycle has failed on the
\* authentication of its enrollments query
NoWriteBeforeFetchesWitness ==
    /\ cycle.pc = "failed" /\ cycle.error = "SFAuthError"
    /\ cycle.trace = <<"fetch_programs", "fetch_enrollments">>
    /\ participants # {}

\* every row of old is still in new, under its uuid or under its remote id
NoRowDeleted(old, new) ==
    \A r \in old : \E r2 \in new : r2.uuid = r.uuid \/ (r.sfid # NULL /\ r2.sfid = r.sfid)

====
